---- MODULE Spec2Model ----
(***************************************************************************)
(* Drag-and-drop restructuring of the block tree of a protyle editor        *)
(* (app/src/protyle/util/editorCommonEvent.ts): the handlers installed by   *)
(* dropEvent (dragstart, dragover, dragleave, drop) and the two planners    *)
(* dragSb and dragSame, which mutate the editor's DOM and commit a          *)
(* transaction of doOperations / undoOperations.                            *)
(*                                                                          *)
(* The DOM is a forest of elements; every block element carries a           *)
(* data-node-id (nid), a data-type (kind), a data-subtype (sub), a          *)
(* data-sb-layout (lay) and, for list items, a data-marker (num).  The      *)
(* kernel's document tree, on which transactions are replayed, is keyed by  *)
(* node id.                                                                 *)
(***************************************************************************)
EXTENDS Integers, Sequences, FiniteSets, TLC

\* ------------------------------------------------------------------ bounds
MaxGestures == 2    \* dragstart events in one behaviour
MaxSel == 2         \* blocks in one gutter selection
MaxMarked == 1      \* blocks carrying a dragover__* class at the same time
MaxPlans == 1       \* planner calls in one behaviour
MaxGoroutines == 2  \* goroutines calling into sync.go at the same time
MaxCalls == 2       \* calls of the functions of sync.go in one behaviour
MaxErrCount == 8    \* syncDownloadErrCount is followed up to this value

\* ------------------------------------------------------- kernel constants
ProviderSiYuan == 0     \* conf.ProviderSiYuan
ProviderS3 == 2         \* conf.ProviderS3
FixSyncInterval == 300  \* fixSyncInterval, in seconds

\* ------------------------------------------------------------- identifiers
NB == 8                 \* blocks 1..NB exist when the editor is loaded
NewPerPlan == 3         \* ids Lute.NewNodeID hands out during one plan, at most
W1 == NB + NewPerPlan * MaxPlans + 1  \* protyle.wysiwyg.element of the editor receiving drops
W2 == W1 + 1            \* wysiwyg element of the other open editor
CopyBase == W2          \* element CopyBase + n is a second DOM element of node n
ZoomID == W2 + NB + 1   \* kernel id of protyle.block.parentID in a zoomed-in view
Elem == 1..(CopyBase + NB)
KIds == 1..ZoomID
NoElem == 0             \* null / undefined element
Undef == 0              \* undefined id (attribute missing, "" or undefined)


\* ---------------------------------------------------------------- helpers
Range(s) == {s[i] : i \in DOMAIN s}
InSeq(x, s) == \E i \in DOMAIN s : s[i] = x
IndexOf(x, s) == CHOOSE i \in DOMAIN s : s[i] = x
Without(s, x) == SelectSeq(s, LAMBDA y : y # x)
InsertAt(s, i, x) == SubSeq(s, 1, i - 1) \o <<x>> \o SubSeq(s, i, Len(s))
Reverse(s) == [i \in 1..Len(s) |-> s[Len(s) + 1 - i]]
Or(a, b) == IF a # Undef THEN a ELSE b

\* ------------------------------------------------------------------- DOM
\* d.kind[e] = "free" : element e does not exist; "w" : a wysiwyg root.
ParentOf(d, e) ==
    IF e # NoElem /\ \E p \in Elem : InSeq(e, d.kids[p])
    THEN CHOOSE p \in Elem : InSeq(e, d.kids[p])
    ELSE NoElem

PrevOf(d, e) ==
    LET p == ParentOf(d, e) IN
    IF p = NoElem THEN NoElem
    ELSE LET i == IndexOf(e, d.kids[p]) IN IF i = 1 THEN NoElem ELSE d.kids[p][i - 1]

NextOf(d, e) ==
    LET p == ParentOf(d, e) IN
    IF p = NoElem THEN NoElem
    ELSE LET i == IndexOf(e, d.kids[p]) IN
         IF i = Len(d.kids[p]) THEN NoElem ELSE d.kids[p][i + 1]

Attr(d, e) == IF e = NoElem THEN Undef ELSE d.nid[e]

RECURSIVE PreSeq(_, _)
\* the elements of the subtrees rooted at the elements of s, in document order
PreSeq(d, s) ==
    IF s = <<>> THEN <<>>
    ELSE <<Head(s)>> \o PreSeq(d, d.kids[Head(s)]) \o PreSeq(d, Tail(s))

Subtree(d, e) == Range(PreSeq(d, <<e>>))
Contains(d, a, b) == a # NoElem /\ b # NoElem /\ b \in Subtree(d, a)

\* element.remove()
Remove(d, e) ==
    LET p == ParentOf(d, e) IN
    IF p = NoElem THEN d ELSE [d EXCEPT !.kids[p] = Without(@, e)]

\* number of element children: the blocks plus the protyle-attr (and, for a
\* list item, the protyle-action) element
ChildElementCount(d, e) ==
    Len(d.kids[e]) + (CASE d.kind[e] = "li" -> 2
                        [] d.kind[e] \in {"l", "sb", "bq"} -> 1
                        [] OTHER -> 0)

\* ref.insertAdjacentElement(where, e).  Inserting an inclusive ancestor of the
\* insertion parent throws HierarchyRequestError; "beforebegin"/"afterend" on a
\* parentless ref do nothing.
CanInsert(d, ref, where, e) ==
    LET p == IF where = "afterbegin" THEN ref ELSE ParentOf(d, ref) IN
    p = NoElem \/ ~Contains(d, e, p)

InsertAdjacent(d, ref, where, e) ==
    LET p == IF where = "afterbegin" THEN ref ELSE ParentOf(d, ref) IN
    IF p = NoElem \/ e = ref THEN d
    ELSE LET d1 == Remove(d, e)
             ks == d1.kids[p]
             i  == CASE where = "afterbegin" -> 1
                     [] where = "beforebegin" -> IndexOf(ref, ks)
                     [] OTHER -> IndexOf(ref, ks) + 1
         IN [d1 EXCEPT !.kids[p] = InsertAt(ks, i, e)]

\* parent.replaceChild(new, old)
ReplaceChild(d, new, old) ==
    LET p == ParentOf(d, old) IN
    [d EXCEPT !.kids[p] = [i \in DOMAIN @ |-> IF @[i] = old THEN new ELSE @[i]]]

\* --------------------------------------------------- kernel document tree
\* The tree transactions are replayed on, keyed by node id.
Blank == [kind |-> "free", sub |-> "", lay |-> "", num |-> 0, kids |-> <<>>]
NoData == [n \in KIds |-> Blank]

KidsOfBlock(d, e) == IF d.kind[e] = "embed" THEN <<>> ELSE d.kids[e]

RECURSIVE BlockSeq(_, _)
\* as PreSeq, without the rendered content of embedded-query blocks
BlockSeq(d, s) ==
    IF s = <<>> THEN <<>>
    ELSE <<Head(s)>> \o BlockSeq(d, KidsOfBlock(d, Head(s))) \o BlockSeq(d, Tail(s))

NodeOf(d, e) ==
    [kind |-> d.kind[e], sub |-> d.sub[e], lay |-> d.lay[e], num |-> d.num[e],
     kids |-> [i \in DOMAIN KidsOfBlock(d, e) |-> d.nid[KidsOfBlock(d, e)[i]]]]

\* element.outerHTML: the element and everything below it
OuterHTML(d, e) ==
    LET es == Range(BlockSeq(d, <<e>>)) IN
    [n \in KIds |-> IF \E x \in es : d.nid[x] = n
                    THEN NodeOf(d, CHOOSE x \in es : d.nid[x] = n)
                    ELSE Blank]

\* the document shown by wysiwyg element w, whose top-level blocks are the
\* children of kernel node top
DocOf(d, w, top) ==
    LET es == Range(BlockSeq(d, d.kids[w])) IN
    [n \in KIds |->
        IF n = top
        THEN [kind |-> "doc", sub |-> "", lay |-> "", num |-> 0,
              kids |-> [i \in DOMAIN d.kids[w] |-> d.nid[d.kids[w][i]]]]
        ELSE IF \E x \in es : d.nid[x] = n
             THEN NodeOf(d, CHOOSE x \in es : d.nid[x] = n)
             ELSE Blank]

KParent(k, n) ==
    IF n # Undef /\ \E p \in KIds : InSeq(n, k[p].kids)
    THEN CHOOSE p \in KIds : InSeq(n, k[p].kids)
    ELSE Undef

KHas(k, n) == n # Undef /\ n \in KIds /\ k[n].kind # "free"

RECURSIVE KSeq(_, _)
KSeq(k, s) ==
    IF s = <<>> THEN <<>>
    ELSE <<Head(s)>> \o KSeq(k, k[Head(s)].kids) \o KSeq(k, Tail(s))

KSub(k, n) == Range(KSeq(k, <<n>>))

KDetach(k, n) ==
    LET p == KParent(k, n) IN
    IF p = Undef THEN k ELSE [k EXCEPT ![p].kids = Without(@, n)]

\* where an operation's previousID / nextID / parentID put a node:
\* after previousID, else before nextID, else first child of parentID
KCanPlace(k, n, op) ==
    IF op.previousID # Undef
    THEN KParent(k, op.previousID) # Undef /\ op.previousID \notin KSub(k, n)
    ELSE IF op.nextID # Undef
    THEN KParent(k, op.nextID) # Undef /\ op.nextID \notin KSub(k, n)
    ELSE KHas(k, op.parentID) /\ op.parentID \notin KSub(k, n)

KPlace(k, n, op) ==
    LET k1 == KDetach(k, n) IN
    IF op.previousID # Undef
    THEN LET p == KParent(k1, op.previousID) IN
         [k1 EXCEPT ![p].kids = InsertAt(@, IndexOf(op.previousID, @) + 1, n)]
    ELSE IF op.nextID # Undef
    THEN LET p == KParent(k1, op.nextID) IN
         [k1 EXCEPT ![p].kids = InsertAt(@, IndexOf(op.nextID, @), n)]
    ELSE [k1 EXCEPT ![op.parentID].kids = <<n>> \o @]

\* write the nodes of an HTML fragment into the tree (a node the fragment
\* holds leaves the place it had before)
KWrite(k, data) ==
    LET ns == {n \in KIds : data[n].kind # "free"} IN
    [n \in KIds |->
        IF n \in ns THEN data[n]
        ELSE [k[n] EXCEPT !.kids = SelectSeq(@, LAMBDA c : c \notin ns)]]

KErase(k, ns) ==
    [n \in KIds |->
        IF n \in ns THEN Blank
        ELSE [k[n] EXCEPT !.kids = SelectSeq(@, LAMBDA c : c \notin ns)]]

\* one operation of a transaction, applied to the kernel tree; an operation
\* that names a node that is not there changes nothing
ApplyOp(k, op) ==
    CASE op.action = "insert" ->
            IF KHas(k, op.id) \/ ~KCanPlace(k, op.id, op) THEN k
            ELSE KPlace(KWrite(k, op.data), op.id, op)
      [] op.action = "move" ->
            IF ~KHas(k, op.id) \/ ~KCanPlace(k, op.id, op) THEN k
            ELSE KPlace(k, op.id, op)
      [] op.action = "delete" ->
            IF ~KHas(k, op.id) THEN k ELSE KErase(k, KSub(k, op.id))
      [] op.action = "update" ->
            IF ~KHas(k, op.id) THEN k
            ELSE LET p  == KParent(k, op.id)
                     i  == IF p = Undef THEN 0 ELSE IndexOf(op.id, k[p].kids)
                     k1 == KWrite(KErase(k, KSub(k, op.id)), op.data)
                 IN IF p = Undef THEN k1
                    ELSE [k1 EXCEPT ![p].kids = InsertAt(@, i, op.id)]
      [] OTHER -> k

RECURSIVE Replay(_, _)
Replay(k, ops) == IF ops = <<>> THEN k ELSE Replay(ApplyOp(k, Head(ops)), Tail(ops))

\* an operation record; absent fields are Undef / NoData
Op(action, id, data, previousID, nextID, parentID) ==
    [action |-> action, id |-> id, data |-> data,
     previousID |-> previousID, nextID |-> nextID, parentID |-> parentID]

\* ------------------------------------------- collaborators of the planners
\* x.getAttribute("data-node-id") || protyle.block.parentID || protyle.block.rootID
IdOrParentOrRoot(d, e, block) ==
    Or(Attr(d, e), Or(block.parentID, block.rootID))

\* x.getAttribute("data-node-id") || protyle.block.rootID
IdOrRoot(d, e, block) == Or(Attr(d, e), block.rootID)

\* root.querySelector(`[data-node-id="${id}"]`): first match in document order
QuerySelector(d, root, id) ==
    LET s == PreSeq(d, d.kids[root])
        hits == {i \in DOMAIN s : d.nid[s[i]] = id}
    IN IF hits = {} THEN NoElem
       ELSE s[CHOOSE i \in hits : \A j \in hits : i <= j]

IsSolo(d, p) == d.kind[p] \in {"bq", "sb", "l", "li"} /\ Len(d.kids[p]) = 1

RECURSIVE getTopAloneElement(_, _)
\* the topmost ancestor that holds nothing but the element
getTopAloneElement(d, e) ==
    LET p == ParentOf(d, e) IN
    IF p = NoElem \/ d.kind[p] = "w" \/ ~IsSolo(d, p) THEN e
    ELSE getTopAloneElement(d, p)

\* a new element with a new node id
NewElement(d, id, kind, sub, lay) ==
    [d EXCEPT !.kind[id] = kind, !.sub[id] = sub, !.lay[id] = lay,
              !.num[id] = 0, !.nid[id] = id, !.kids[id] = <<>>]

genSBElement(d, id, direct) == NewElement(d, id, "sb", "", direct)

\* genEmptyElement(false, false, id).outerHTML
EmptyHTML(id) == [NoData EXCEPT ![id] = [Blank EXCEPT !.kind = "p"]]

\* updateListOrder(list, 1): the items get the markers 1., 2., ...
updateListOrder(d, list) ==
    [d EXCEPT !.num = [e \in Elem |->
        IF InSeq(e, d.kids[list]) THEN IndexOf(e, d.kids[list]) ELSE @[e]]]

\* the editor whose document holds element e
ViewOf(d, e) == IF Contains(d, W2, e) THEN W2 ELSE W1

\* cancelSB(protyle, sb): the super block holding one child is replaced by
\* that child in the place the super block had in its document; two
\* do-operations and two undo-operations describe it
cancelSB(d, sb, hosts) ==
    LET child == d.kids[sb][1]
        prev  == Attr(d, PrevOf(d, sb))
        par   == IdOrParentOrRoot(d, ParentOf(d, sb), hosts[ViewOf(d, sb)].block)
        shell == [NoData EXCEPT ![d.nid[sb]] = [NodeOf(d, sb) EXCEPT !.kids = <<>>]]
    IN [d |-> [ReplaceChild(d, child, sb) EXCEPT !.kids[sb] = <<>>],
        doOperations |-> << Op("move", d.nid[child], NoData, prev, Undef, par),
                            Op("delete", d.nid[sb], NoData, Undef, Undef, Undef) >>,
        undoOperations |-> << Op("insert", d.nid[sb], shell, prev, Undef, par),
                              Op("move", d.nid[child], NoData, Undef, Undef, d.nid[sb]) >>]

\* ------------------------------------------------------------ the planners
\* A planner's state: the DOM d, the two operation arrays, topSourceElement
\* (top), oldSourceParentElement (old) and the exception thrown, if any (err).
Start(d, src) ==
    [d |-> d, doOperations |-> <<>>, undoOperations |-> <<>>, top |-> NoElem,
     old |-> IF src = <<>> THEN NoElem ELSE ParentOf(d, src[1]),
     err |-> IF src = <<>> THEN "TypeError" ELSE ""]

\* array.splice(i, 0, x)
Splice(s, i, x) == InsertAt(s, (IF i > Len(s) THEN Len(s) ELSE i) + 1, x)

Delete(id) == Op("delete", id, NoData, Undef, Undef, Undef)

\* the parent of the last item taken for the emptied chain although it holds
\* other blocks
TopOfParent(S, item, isLast, c, t0) ==
    IF ~isLast THEN S.top
    ELSE IF t0 = item
    THEN IF S.d.kind[ParentOf(S.d, item)] \in {"bq", "li"} THEN ParentOf(S.d, item) ELSE NoElem
    ELSE IF c.cut /\ Contains(S.d, t0, item) /\ Contains(S.d, t0, c.target) THEN c.target
    ELSE t0

\* topSourceElement after the forEach body's first statement: c.cut tells
\* whether the branch cuts the emptied chain at the target
TopOf(S, item, isLast, c, t0) ==
    IF ~isLast THEN S.top
    ELSE IF t0 = item THEN NoElem
    ELSE IF c.cut /\ Contains(S.d, t0, item) /\ Contains(S.d, t0, c.target) THEN c.target
    ELSE t0

\* the undo operation that takes the item back
UndoMove(d, item, c) ==
    Op("move", d.nid[item], NoData, Attr(d, PrevOf(d, item)), Undef,
       IdOrRoot(d, ParentOf(d, item), c.block))

\* "打开两个相同的文档": the receiving editor's own element of the node goes
Unduplicated(d, id, isSameDoc) ==
    IF isSameDoc THEN d ELSE Remove(d, QuerySelector(d, W1, id))

\* the do operation of an item that has been put in its place (c.mode: "into"
\* a new container, "after" the target, "before" the target)
MoveOp(d, item, c) ==
    CASE c.mode = "into" -> Op("move", d.nid[item], NoData, Undef, Undef, d.nid[c.ref])
      [] c.mode = "after" -> Op("move", d.nid[item], NoData, d.nid[c.target], Undef, Undef)
      [] OTHER -> Op("move", d.nid[item], NoData, Attr(d, PrevOf(d, item)), Undef,
                     IdOrParentOrRoot(d, ParentOf(d, item), c.block))

Inserted(S, item, c) == [S EXCEPT !.doOperations = Append(@, MoveOp(S.d, item, c))]

\* c.ref.insertAdjacentElement(c.where, item) and the push of the do operation
Moved(S, item, c) ==
    IF ~CanInsert(S.d, c.ref, c.where, item)
    THEN [S EXCEPT !.err = "HierarchyRequestError"]
    ELSE Inserted([S EXCEPT !.d = InsertAdjacent(@, c.ref, c.where, item)], item, c)

\* The body of sourceElements.forEach((item, index) => ...) of both planners.
MoveStep(S, item, isLast, c) ==
    IF S.err # "" THEN S
    ELSE IF ParentOf(S.d, item) = NoElem
    THEN [S EXCEPT !.top = TopOf(S, item, isLast, c, getTopAloneElement(S.d, item)),
                   !.err = "TypeError"]
    ELSE Moved([S EXCEPT !.top = TopOf(S, item, isLast, c, getTopAloneElement(S.d, item)),
                         !.undoOperations = Append(@, UndoMove(S.d, item, c)),
                         !.d = Unduplicated(@, S.d.nid[item], c.isSameDoc)],
               item, c)

RECURSIVE ForEach(_, _, _, _)
ForEach(S, items, i, c) ==
    IF i > Len(items) THEN S
    ELSE ForEach(MoveStep(S, items[i], i = Len(items), c), items, i + 1, c)

RECURSIVE UpdatesOf(_, _)
\* one `update` operation per block child, carrying its outerHTML
UpdatesOf(d, items) ==
    IF items = <<>> THEN <<>>
    ELSE <<Op("update", d.nid[Head(items)], OuterHTML(d, Head(items)), Undef, Undef, Undef)>>
         \o UpdatesOf(d, Tail(items))

RECURSIVE SpliceAll(_, _, _)
\* items.forEach(x => undoOperations.splice(i, 0, x))
SpliceAll(undo, i, ops) ==
    IF ops = <<>> THEN undo ELSE SpliceAll(Splice(undo, i, Head(ops)), i, Tail(ops))

\* the updates recorded, the renumbered DOM dropped
OrderedUnnumbered(S, list, i, d1) ==
    [S EXCEPT !.undoOperations = SpliceAll(@, i, UpdatesOf(S.d, S.d.kids[list])),
              !.doOperations = @ \o UpdatesOf(S.d, S.d.kids[list])]

\* the undo updates go in at i, the list is renumbered, the do updates follow
Ordered(S, list, i, d1) ==
    [S EXCEPT !.undoOperations = SpliceAll(@, i, UpdatesOf(S.d, S.d.kids[list])),
              !.d = d1,
              !.doOperations = @ \o UpdatesOf(d1, d1.kids[list])]

\* https://github.com/siyuan-note/insider/issues/536 : the ordered list the
\* sources left is renumbered when it keeps an item
NeedsOrder(d, old, first) ==
    /\ old # NoElem
    /\ d.kind[old] = "l"
    /\ d.sub[old] = "o"
    /\ old # ParentOf(d, first)
    /\ ChildElementCount(d, old) > 1

OrderOld(S, first, i) ==
    IF NeedsOrder(S.d, S.old, first) THEN Ordered(S, S.old, i, updateListOrder(S.d, S.old))
    ELSE S

\* the insert of the emptied chain pushed at the end of undoOperations, not
\* spliced in at the front
DeleteTopLate(S, isSameDoc, block) ==
    IF S.top = NoElem THEN S
    ELSE [S EXCEPT
            !.doOperations = Append(@, Delete(S.d.nid[S.top])),
            !.undoOperations = Append(@,
                Op("insert", S.d.nid[S.top], OuterHTML(S.d, S.top),
                   Attr(S.d, PrevOf(S.d, S.top)), Undef,
                   IdOrParentOrRoot(S.d, ParentOf(S.d, S.top), block))),
            !.old = ParentOf(Unduplicated(S.d, S.d.nid[S.top], isSameDoc), S.top),
            !.d = Remove(Unduplicated(@, S.d.nid[S.top], isSameDoc), S.top)]

\* "删除空元素": the emptied chain is deleted, its copy in the receiving
\* editor too when the sources come from another editor
DeleteTop(S, isSameDoc, block) ==
    IF S.top = NoElem THEN S
    ELSE [S EXCEPT
            !.doOperations = Append(@, Delete(S.d.nid[S.top])),
            !.undoOperations = Splice(@, 0,
                Op("insert", S.d.nid[S.top], OuterHTML(S.d, S.top),
                   Attr(S.d, PrevOf(S.d, S.top)), Undef,
                   IdOrParentOrRoot(S.d, ParentOf(S.d, S.top), block))),
            !.old = ParentOf(Unduplicated(S.d, S.d.nid[S.top], isSameDoc), S.top),
            !.d = Remove(Unduplicated(@, S.d.nid[S.top], isSameDoc), S.top)]

\* the undo operations of cancelSB pushed at the end, not spliced in at 0
CancelledLate(S, sbData) ==
    [S EXCEPT !.d = sbData.d,
              !.doOperations = @ \o sbData.doOperations,
              !.undoOperations = @ \o sbData.undoOperations]

\* doOperations.push(..), undoOperations.splice(0, 0, ..) of cancelSB's result
Cancelled(S, sbData) ==
    [S EXCEPT !.d = sbData.d,
              !.doOperations = @ \o sbData.doOperations,
              !.undoOperations = sbData.undoOperations \o @]

\* the guard of lines 215-220 dropped: the leaf is made for every emptied root
EmptyRootAlways(S, host, mobile, newId) ==
    [S EXCEPT
        !.doOperations = Splice(@, 0,
            Op("insert", newId, EmptyHTML(newId), Undef, Undef, host.block.parentID)),
        !.undoOperations = Splice(@, 0, Delete(newId))]

\* the leaf's operations pushed at the end of both arrays
EmptyRootLate(S, host, mobile, newId) ==
    IF ~mobile /\ host.kind = "tab" /\ host.block.id = host.block.rootID
    THEN [S EXCEPT
            !.doOperations = Append(@,
                Op("insert", newId, EmptyHTML(newId), Undef, Undef, host.block.parentID)),
            !.undoOperations = Append(@, Delete(newId))]
    ELSE S

\* "拖拽后，根文档原内容为空，且不为悬浮窗"
EmptyRoot(S, host, mobile, newId) ==
    IF ~mobile /\ host.kind = "tab" /\ host.block.id = host.block.rootID
    THEN [S EXCEPT
            !.doOperations = Splice(@, 0,
                Op("insert", newId, EmptyHTML(newId), Undef, Undef, host.block.parentID)),
            !.undoOperations = Splice(@, 0, Delete(newId))]
    ELSE S

\* "拖拽后，sb 只剩下一个元素", or the root is left empty
Collapse(S, env) ==
    IF S.old = NoElem THEN S
    ELSE IF S.d.kind[S.old] = "sb" /\ ChildElementCount(S.d, S.old) = 2
    THEN Cancelled(S, cancelSB(S.d, S.old, env.host))
    ELSE IF S.d.kind[S.old] = "w" /\ ChildElementCount(S.d, S.old) = 0
    THEN EmptyRoot(S, env.host[S.old], env.mobile, env.base + 2)
    ELSE S

\* transaction(protyle, doOperations, undoOperations?) and focusBlock
Commit(S, isSameDoc, focus) ==
    [d |-> S.d, doOperations |-> S.doOperations, undoOperations |-> S.undoOperations,
     hasUndo |-> isSameDoc /\ S.err = "", committed |-> S.err = "",
     err |-> S.err, focus |-> IF S.err = "" THEN focus ELSE NoElem]

\* the steps both planners end with
Finish(S, first, i, env, isSameDoc) ==
    IF S.err # "" THEN Commit(S, isSameDoc, NoElem)
    ELSE Commit(Collapse(DeleteTop(OrderOld(S, first, i), isSameDoc, env.host[W1].block),
                         env),
                isSameDoc, first)

NeedsList(d, src, target) == d.kind[src[1]] = "li" /\ d.kind[target] # "li"

\* the list made for list items that are not dropped at a list item
WithList(d, src, target, list) ==
    IF NeedsList(d, src, target) THEN NewElement(d, list, "l", d.sub[src[1]], "") ELSE d

\* the new list put in the DOM, its insert left out of doOperations
ListInsertedUnrecorded(S, target, list, isBottom) ==
    [S EXCEPT !.d = InsertAdjacent(@, target,
                       IF isBottom THEN "afterend" ELSE "beforebegin", list)]

\* target.insertAdjacentElement(isBottom ? "afterend" : "beforebegin", list)
ListInserted(S, target, list, isBottom) ==
    [S EXCEPT !.d = InsertAdjacent(@, target,
                       IF isBottom THEN "afterend" ELSE "beforebegin", list),
              !.doOperations = Append(@,
                  Op("insert", list, OuterHTML(S.d, list),
                     IF isBottom THEN S.d.nid[target] ELSE Undef,
                     IF isBottom THEN Undef ELSE S.d.nid[target], Undef))]

UndoReversed(S) == [S EXCEPT !.undoOperations = Reverse(@)]
\* undoOperations.unshift in place of push: the delete would come first
UndoUnshifted(S, op) == [S EXCEPT !.undoOperations = <<op>> \o @]
UndoPushed(S, op) == [S EXCEPT !.undoOperations = Append(@, op)]

Ctx(target, isSameDoc, block, ref, where, mode, cut) ==
    [target |-> target, isSameDoc |-> isSameDoc, block |-> block, ref |-> ref,
     where |-> where, mode |-> mode, cut |-> cut]

\* --- dragSb
\* the super block takes the target's place
SbPlaced(S, sb, target, block) ==
    [S EXCEPT !.d = ReplaceChild(@, sb, target),
              !.undoOperations = <<Op("move", S.d.nid[target], NoData,
                                      Attr(S.d, PrevOf(S.d, target)), Undef,
                                      IdOrParentOrRoot(S.d, ParentOf(S.d, target), block))>>]

SbInserted(S, sb, block) ==
    [S EXCEPT !.doOperations = <<Op("insert", sb, OuterHTML(S.d, sb),
                                    Attr(S.d, PrevOf(S.d, sb)), Attr(S.d, NextOf(S.d, sb)),
                                    IdOrParentOrRoot(S.d, ParentOf(S.d, sb), block))>>]

\* sbElement.insertAdjacentElement("afterbegin", targetElement)
TargetIntoSb(S, sb, target, when) ==
    IF ~when \/ S.err # "" THEN S
    ELSE [S EXCEPT !.d = InsertAdjacent(@, sb, "afterbegin", target),
                   !.doOperations = Append(@,
                       Op("move", S.d.nid[target], NoData, Undef, Undef, sb))]

SbMoved(S, rev, target, isBottom, isSameDoc, block, wrap, list, sb) ==
    IF wrap
    THEN UndoPushed(
            UndoReversed(
               ForEach(ListInserted(TargetIntoSb(S, sb, target, TRUE), target, list, isBottom),
                       rev, 1,
                       Ctx(target, isSameDoc, block, list, "afterbegin", "into", FALSE))),
            Delete(list))
    ELSE TargetIntoSb(
            UndoReversed(
               ForEach(TargetIntoSb(S, sb, target, ~isBottom), rev, 1,
                       Ctx(target, isSameDoc, block, sb, "afterbegin", "into", FALSE))),
            sb, target, isBottom)

dragSb(d0, src, target, isBottom, direct, env) ==
    IF src = <<>> THEN Commit(Start(d0, src), FALSE, NoElem)
    ELSE Finish(
            UndoPushed(
               SbMoved(
                  SbInserted(
                     SbPlaced([Start(d0, src) EXCEPT
                                 !.d = genSBElement(WithList(d0, src, target, env.base),
                                                    env.base + 1, direct)],
                              env.base + 1, target, env.host[W1].block),
                     env.base + 1, env.host[W1].block),
                  Reverse(src), target, isBottom, Contains(d0, W1, src[1]),
                  env.host[W1].block, NeedsList(d0, src, target), env.base, env.base + 1),
               Delete(env.base + 1)),
            src[Len(src)], 0, env, Contains(d0, W1, src[1]))

\* --- dragSame
\* the ordered list a list-item target belongs to is renumbered
OrderTarget(S, target) ==
    IF S.err # "" \/ ~(S.d.kind[target] = "li" /\ S.d.sub[target] = "o") THEN S
    ELSE IF ParentOf(S.d, target) = NoElem THEN [S EXCEPT !.err = "TypeError"]
    ELSE Ordered(S, ParentOf(S.d, target), 0,
                 updateListOrder(S.d, ParentOf(S.d, target)))

\* the new ordered list made for the sources is renumbered
OrderNew(S, list) ==
    IF S.err # "" \/ S.d.sub[list] # "o" THEN S
    ELSE [S EXCEPT !.undoOperations = Splice(@, 0, Head(UpdatesOf(S.d, <<list>>))),
                   !.d = updateListOrder(@, list),
                   !.doOperations = @ \o UpdatesOf(updateListOrder(S.d, list), <<list>>)]

SameMoved(S, items, target, isBottom, isSameDoc, block, wrap, list) ==
    IF wrap
    THEN UndoPushed(
            OrderNew(
               UndoReversed(
                  ForEach(ListInserted(S, target, list, isBottom), items, 1,
                          Ctx(target, isSameDoc, block, list, "afterbegin", "into", FALSE))),
               list),
            Delete(list))
    ELSE UndoReversed(
            ForEach(S, items, 1,
                    Ctx(target, isSameDoc, block, target,
                        IF isBottom THEN "afterend" ELSE "beforebegin",
                        IF isBottom THEN "after" ELSE "before", TRUE)))

\* undoOperations.splice(targetElement.parentElement.childElementCount - 1, 0, ..)
\* unless the list the sources left holds the target
SpliceIndex(d, old, target) ==
    IF Contains(d, old, target) \/ ParentOf(d, target) = NoElem THEN 0
    ELSE ChildElementCount(d, ParentOf(d, target)) - 1

SameFinish(S, first, target, env, isSameDoc) ==
    IF /\ S.err = ""
       /\ NeedsOrder(S.d, S.old, first)
       /\ ~Contains(S.d, S.old, target)
       /\ ParentOf(S.d, target) = NoElem
    THEN Commit([S EXCEPT !.err = "TypeError"], isSameDoc, NoElem)
    ELSE Finish(S, first, SpliceIndex(S.d, S.old, target), env, isSameDoc)

\* no branch reverses the sources
SameOrderKept(d, src, target, isBottom) == src

\* sourceElements.reverse() in every branch but the last
SameOrder(d, src, target, isBottom) ==
    IF ~isBottom /\ ~NeedsList(d, src, target) THEN src ELSE Reverse(src)

dragSame(d0, src, target, isBottom, env) ==
    IF src = <<>> THEN Commit(Start(d0, src), FALSE, NoElem)
    ELSE SameFinish(
            OrderTarget(
               SameMoved([Start(d0, src) EXCEPT !.d = WithList(d0, src, target, env.base)],
                         SameOrder(d0, src, target, isBottom), target, isBottom,
                         Contains(d0, W1, src[1]), env.host[W1].block,
                         NeedsList(d0, src, target), env.base),
               target),
            SameOrder(d0, src, target, isBottom)[1], target, env, Contains(d0, W1, src[1]))

\* ------------------------------------------------------ documents at load
EmptyDom ==
    [kind |-> [e \in Elem |-> IF e \in {W1, W2} THEN "w" ELSE "free"],
     sub  |-> [e \in Elem |-> ""],
     lay  |-> [e \in Elem |-> ""],
     num  |-> [e \in Elem |-> 0],
     nid  |-> [e \in Elem |-> Undef],
     kids |-> [e \in Elem |-> <<>>]]

\* b = <<element, kind, subtype or layout, children>>
AddBlock(d, b) ==
    [d EXCEPT !.kind[b[1]] = b[2],
              !.sub[b[1]] = IF b[2] \in {"l", "li"} THEN b[3] ELSE "",
              !.lay[b[1]] = IF b[2] = "sb" THEN b[3] ELSE "",
              !.nid[b[1]] = IF b[1] > CopyBase THEN b[1] - CopyBase ELSE b[1],
              !.kids[b[1]] = b[4]]

RECURSIVE AddBlocks(_, _)
AddBlocks(d, bs) == IF bs = <<>> THEN d ELSE AddBlocks(AddBlock(d, Head(bs)), Tail(bs))

\* ordered lists are numbered when the document is loaded
Numbered(d) ==
    [d EXCEPT !.num = [e \in Elem |->
        LET p == ParentOf(d, e) IN
        IF p # NoElem /\ d.kind[p] = "l" /\ d.sub[p] = "o"
        THEN IndexOf(e, d.kids[p]) ELSE 0]]

Load(top1, top2, bs) ==
    Numbered([AddBlocks(EmptyDom, bs) EXCEPT !.kids[W1] = top1, !.kids[W2] = top2])

C(n) == CopyBase + n

Shapes == <<
    \* paragraphs; the other editor shows a document of one paragraph
    Load(<<1, 2, 3>>, <<4>>,
         << <<1, "p", "", <<>>>>, <<2, "p", "", <<>>>>, <<3, "p", "", <<>>>>,
            <<4, "p", "", <<>>>> >>),
    \* an ordered list between paragraphs
    Load(<<1, 2, 8>>, <<>>,
         << <<1, "p", "", <<>>>>, <<2, "l", "o", <<3, 5, 7>>>>,
            <<3, "li", "o", <<4>>>>, <<4, "p", "", <<>>>>,
            <<5, "li", "o", <<6>>>>, <<6, "p", "", <<>>>>,
            <<7, "li", "o", <<>>>>, <<8, "p", "", <<>>>> >>),
    \* a list nested in the only item of a list
    Load(<<1, 2>>, <<>>,
         << <<1, "p", "", <<>>>>, <<2, "l", "u", <<3>>>>,
            <<3, "li", "u", <<4, 5>>>>, <<4, "p", "", <<>>>>,
            <<5, "l", "u", <<6, 7>>>>, <<6, "li", "u", <<>>>>, <<7, "li", "u", <<>>>> >>),
    \* super blocks
    Load(<<1, 4, 5>>, <<>>,
         << <<1, "sb", "row", <<2, 3>>>>, <<2, "p", "", <<>>>>, <<3, "p", "", <<>>>>,
            <<4, "p", "", <<>>>>,
            <<5, "sb", "col", <<6, 7, 8>>>>, <<6, "p", "", <<>>>>, <<7, "p", "", <<>>>>,
            <<8, "p", "", <<>>>> >>),
    \* a block quote holding only a block quote holding only a paragraph
    Load(<<1, 2, 5>>, <<>>,
         << <<1, "p", "", <<>>>>, <<2, "bq", "", <<3>>>>, <<3, "bq", "", <<4>>>>,
            <<4, "p", "", <<>>>>,
            <<5, "sb", "row", <<6, 7>>>>, <<6, "bq", "", <<8>>>>, <<7, "p", "", <<>>>>,
            <<8, "p", "", <<>>>> >>),
    \* embedded queries: block 2 renders copies of blocks 1 and 5, block 5 of block 4
    Load(<<1, 2, 3, 5>>, <<>>,
         << <<1, "p", "", <<>>>>, <<2, "embed", "", <<C(1), C(5)>>>>,
            <<C(1), "p", "", <<>>>>, <<C(5), "embed", "", <<>>>>,
            <<3, "l", "u", <<4>>>>, <<4, "li", "u", <<>>>>,
            <<5, "embed", "", <<C(4)>>>>, <<C(4), "li", "u", <<>>>> >>),
    \* an ordered and an unordered list
    Load(<<1, 4, 7>>, <<>>,
         << <<1, "l", "o", <<2, 3>>>>, <<2, "li", "o", <<>>>>, <<3, "li", "o", <<>>>>,
            <<4, "l", "u", <<5, 6>>>>, <<5, "li", "u", <<>>>>, <<6, "li", "u", <<>>>>,
            <<7, "p", "", <<>>>> >>),
    \* the same document open in both editors
    Load(<<1, 2, 3>>, <<C(1), C(2), C(3)>>,
         << <<1, "p", "", <<>>>>, <<2, "p", "", <<>>>>, <<3, "l", "o", <<4, 5>>>>,
            <<4, "li", "o", <<>>>>, <<5, "li", "o", <<>>>>,
            <<C(1), "p", "", <<>>>>, <<C(2), "p", "", <<>>>>, <<C(3), "l", "o", <<C(4), C(5)>>>>,
            <<C(4), "li", "o", <<>>>>, <<C(5), "li", "o", <<>>>> >>),
    \* the other editor shows a document of a super block and an ordered list
    Load(<<1, 2>>, <<3, 6>>,
         << <<1, "p", "", <<>>>>, <<2, "l", "o", <<8>>>>, <<8, "li", "o", <<>>>>,
            <<3, "sb", "col", <<4, 5>>>>, <<4, "p", "", <<>>>>, <<5, "p", "", <<>>>>,
            <<6, "l", "o", <<7>>>>, <<7, "li", "o", <<>>>> >>),
    \* a super block holding a list of one item and a paragraph
    Load(<<1, 2>>, <<>>,
         << <<1, "p", "", <<>>>>, <<2, "sb", "row", <<3, 5>>>>,
            <<3, "l", "o", <<4>>>>, <<4, "li", "o", <<6>>>>, <<5, "p", "", <<>>>>,
            <<6, "p", "", <<>>>> >>)
>>

\* ------------------------------------------------------------ environment
WholeDoc(root) == [id |-> root, rootID |-> root, parentID |-> root]
Host(kind, block) == [kind |-> kind, block |-> block]

\* mobile: the MOBILE build; host[w]: the protyle of wysiwyg element w ("tab":
\* an Editor in a Tab, "float": a block__edit popover, "other": neither) and
\* its protyle.block; base: the next id Lute.NewNodeID hands out
Env(mobile, h1, h2) ==
    [mobile |-> mobile, host |-> (W1 :> h1) @@ (W2 :> h2), base |-> NB + 1]

Desktop == Env(FALSE, Host("tab", WholeDoc(W1)), Host("tab", WholeDoc(W2)))
SameDoc == Env(FALSE, Host("tab", WholeDoc(W1)), Host("tab", WholeDoc(W1)))
Mobile  == Env(TRUE, Host("tab", WholeDoc(W1)), Host("tab", WholeDoc(W2)))
Popover == Env(FALSE, Host("tab", WholeDoc(W1)), Host("float", WholeDoc(W2)))
Panel   == Env(FALSE, Host("tab", WholeDoc(W1)), Host("other", WholeDoc(W2)))
\* the receiving editor is zoomed in on a heading, the first child of node ZoomID
Zoomed  == Env(FALSE, Host("tab", [id |-> 1, rootID |-> W1, parentID |-> ZoomID]),
               Host("tab", WholeDoc(W2)))

Loads == {<<i, Desktop>> : i \in (1..Len(Shapes)) \ {8}}
         \cup {<<8, SameDoc>>}
         \cup {<<1, e>> : e \in {Mobile, Popover, Panel, Zoomed}}

\* the kernel's trees of the documents the two editors show
KernelOf(d, env) ==
    LET b1 == env.host[W1].block
        b2 == env.host[W2].block
        k1 == DocOf(d, W1, b1.parentID)
        k2 == IF b2.rootID = b1.rootID THEN k1
              ELSE LET o == DocOf(d, W2, b2.parentID) IN
                   [n \in KIds |-> IF o[n].kind # "free" THEN o[n] ELSE k1[n]]
    IN IF b1.parentID = b1.rootID THEN k2
       ELSE [k2 EXCEPT ![b1.parentID].kind = "bq",
                       ![b1.rootID] = [Blank EXCEPT !.kind = "doc", !.kids = <<b1.parentID>>]]

\* ----------------------------------------------------------------- state
VARIABLES
    dom,             \* the DOM of both editors
    ktree,           \* the kernel's document trees
    env,             \* build, hosts of the editors, next new id
    dragElement,     \* window.siyuan.dragElement
    dragoverElement, \* the closure variable of dropEvent
    cls,             \* the dragover__* class each element carries, "" for none
    dataTransfer,    \* what the running gesture's event.dataTransfer holds
    gestures,        \* dragstart events so far
    plans,           \* planner calls so far
    last,            \* the latest planner call and what it committed
    dropRun,         \* the runs of the drop listener: the latest to end, the suspended
    \* kernel/model/sync.go
    syncLock,             \* the goroutine holding the mutex, 0 when it is free
    Conf,                 \* Conf.Sync
    syncPlanTime,         \* the latest planSyncAfter: its delay, and the goroutine
    syncDownloadErrCount,
    BootSyncSucc,
    ExitSyncSucc,
    isSubscriber,         \* IsSubscriber()
    cloudDirs,            \* the sync directories that exist in the cloud
    sent,                 \* messages the latest statement sent: BroadcastByType, PushMsg, PushErrMsg
    calls,                \* calls of the functions of sync.go so far
    pc,                   \* where each goroutine is in its call
    call,                 \* the call each goroutine runs
    ret                   \* the latest call that returned, and how

editor == <<dom, ktree, env, dragElement, dragoverElement, cls, dataTransfer, gestures,
            plans, last, dropRun>>

kernel == <<syncLock, Conf, syncPlanTime, syncDownloadErrCount, BootSyncSucc,
            ExitSyncSucc, isSubscriber, cloudDirs, sent, calls, pc, call, ret>>

vars == <<editor, kernel>>

\* ------------------------------------------------ the kernel before any call
Goroutines == 1..MaxGoroutines

\* conf.NewSync()
NoStat == [synced |-> 0, err |-> FALSE]

NewSync ==
    [CloudName |-> "main", Enabled |-> FALSE, Mode |-> 1, Synced |-> 0, Stat |-> NoStat,
     GenerateConflictDoc |-> FALSE, Provider |-> ProviderSiYuan]

NoSyncCall ==
    [fn |-> "", boot |-> FALSE, exit |-> FALSE, byHand |-> FALSE, name |-> "",
     b |-> FALSE, mode |-> 0, waited |-> FALSE]

NoReturn == [g |-> 0, of |-> NoSyncCall, how |-> "", err |-> FALSE]

\* the package variables of lines 39-47 and 304, no call running
KernelLoaded ==
    /\ syncLock = 0
    /\ syncPlanTime = [after |-> FixSyncInterval, by |-> 0]
    /\ BootSyncSucc = -1
    /\ ExitSyncSucc = -1
    /\ sent = 0
    /\ calls = 0
    /\ pc = [g \in Goroutines |-> "idle"]
    /\ call = [g \in Goroutines |-> NoSyncCall]
    /\ ret = NoReturn

\* the kernel while the editor's listeners are followed: it runs no call
KernelOff ==
    /\ KernelLoaded
    /\ Conf = NewSync
    /\ syncDownloadErrCount = 0
    /\ isSubscriber = FALSE
    /\ cloudDirs = {}

\* no run of the drop listener has ended since the latest dragstart, none is
\* suspended
NoRun == [branch |-> "", awaiting |-> "", since |-> 0, target |-> NoElem]

NoDrag ==
    [from |-> "none", view |-> W1, type |-> "", subtype |-> "", id |-> Undef,
     selectedIds |-> <<>>, el |-> NoElem, dash |-> FALSE, own |-> FALSE]

NoCall ==
    [fn |-> "none", src |-> <<>>, target |-> NoElem, isBottom |-> FALSE, direct |-> "",
     pre |-> EmptyDom, kpre |-> NoData, env |-> Desktop,
     doOperations |-> <<>>, undoOperations |-> <<>>, hasUndo |-> FALSE,
     committed |-> FALSE, err |-> "", focus |-> NoElem]

Init ==
    \E l \in Loads :
        /\ dom = Shapes[l[1]]
        /\ env = l[2]
        /\ ktree = KernelOf(Shapes[l[1]], l[2])
        /\ dragElement = NoDrag
        /\ dragoverElement = NoElem
        /\ cls = [e \in Elem |-> ""]
        /\ dataTransfer = "none"
        /\ gestures = 0
        /\ plans = 0
        /\ last = NoCall
        /\ dropRun = NoRun
        /\ KernelOff

\* the blocks editor w shows, in document order (rendered embed content too)
BlocksIn(d, w) == PreSeq(d, d.kids[w])

\* hasClosestByAttribute(e, "data-type", "NodeBlockQueryEmbed")
InEmbed(d, e) == \E a \in Elem : d.kind[a] = "embed" /\ Contains(d, a, e)

\* hasClosestByAttribute(e, "data-node-id", id)
HasClosestId(d, e, id) ==
    \E a \in Elem : d.kind[a] \notin {"free", "w"} /\ d.nid[a] = id /\ Contains(d, a, e)

TypeOf(d, e) == IF d.kind[e] = "li" THEN "NodeListItem" ELSE d.kind[e]

\* ------------------------------------------------------------- dragstart
\* A block icon of the gutter is dragged: the button carries the type, the
\* subtype and the id of its block and the ids of the selected blocks.
Selections(d, w) ==
    {sel \in UNION {[1..n -> Range(BlockSeq(d, d.kids[w]))] : n \in 1..MaxSel} :
        \A i \in 1..(Len(sel) - 1) : NextOf(d, sel[i]) = sel[i + 1]}

\* a behaviour is followed up to its last planner call
Running == plans < MaxPlans

GutterDragStart ==
    /\ Running
    /\ UNCHANGED kernel
    /\ gestures < MaxGestures
    /\ \E w \in {W1, W2} : \E sel \in Selections(dom, w) :
          dragElement' = [NoDrag EXCEPT !.from = "gutter", !.view = w,
                             !.type = TypeOf(dom, sel[1]), !.subtype = dom.sub[sel[1]],
                             !.id = dom.nid[sel[1]],
                             !.selectedIds = [i \in DOMAIN sel |-> dom.nid[sel[i]]]]
    /\ dataTransfer' = "block"
    /\ gestures' = gestures + 1
    /\ dropRun' = [dropRun EXCEPT !.branch = ""]
    /\ UNCHANGED <<dom, ktree, env, dragoverElement, cls, plans, last>>

\* A document of the file tree is dragged: the dragged element's text is the
\* ids of the documents.
FileTreeDragStart ==
    /\ Running
    /\ UNCHANGED kernel
    /\ gestures < MaxGestures
    /\ \E own \in BOOLEAN :
          dragElement' = [NoDrag EXCEPT !.from = "filetree", !.dash = TRUE, !.own = own]
    /\ dataTransfer' = "filetree"
    /\ gestures' = gestures + 1
    /\ dropRun' = [dropRun EXCEPT !.branch = ""]
    /\ UNCHANGED <<dom, ktree, env, dragoverElement, cls, plans, last>>

\* dragstart inside the editor: an image, the bullet of a list item
\* (protyle-action), or selected text
DragStart ==
    /\ Running
    /\ UNCHANGED kernel
    /\ gestures < MaxGestures
    /\ gestures' = gestures + 1
    /\ \/ /\ dragElement' = NoDrag                         \* target.tagName === "IMG"
          /\ dataTransfer' = "none"
       \/ \E li \in Range(BlocksIn(dom, W1)) : \E dash \in BOOLEAN :
             /\ dom.kind[li] = "li"
             /\ dragElement' =
                   IF InEmbed(dom, li) THEN NoDrag
                   ELSE [NoDrag EXCEPT !.from = "bullet", !.type = "NodeListItem",
                            !.subtype = dom.sub[li], !.id = dom.nid[li], !.el = li,
                            !.dash = dash]
             /\ dataTransfer' = "none"
       \/ /\ dataTransfer' = "editor"                      \* Constants.SIYUAN_DROP_EDITOR
          /\ UNCHANGED dragElement
    /\ dropRun' = [dropRun EXCEPT !.branch = ""]
    /\ UNCHANGED <<dom, ktree, env, dragoverElement, cls, plans, last>>

\* -------------------------------------------------------------- dragover
IsBlockDrag(drag) == drag.from = "gutter" \/ drag.type = "NodeListItem"

\* the first check turned round: a target that holds a dragged node is refused
RejectsAncestors(d, drag, t) ==
    LET selectedIds == IF drag.selectedIds # <<>> THEN drag.selectedIds ELSE <<drag.id>> IN
    \/ \E i \in DOMAIN selectedIds : \E e \in Subtree(d, t) :
          selectedIds[i] # Undef /\ d.nid[e] = selectedIds[i]
    \/ InEmbed(d, ParentOf(d, t))
    \/ /\ drag.type = "NodeListItem"
       /\ drag.subtype # d.sub[t]
       /\ drag.type = TypeOf(d, t)
    \/ drag.type # "NodeListItem" /\ TypeOf(d, t) = "NodeListItem"

\* "gutter 文档内拖拽限制": the checks that keep dragover from accepting t
Rejects(d, drag, t) ==
    LET selectedIds == IF drag.selectedIds # <<>> THEN drag.selectedIds ELSE <<drag.id>> IN
    \/ \E i \in DOMAIN selectedIds :                       \* 排除自己及子孙
          selectedIds[i] # Undef /\ HasClosestId(d, t, selectedIds[i])
    \/ InEmbed(d, ParentOf(d, t))                          \* 不允许托入嵌入块
    \/ /\ drag.type = "NodeListItem"                       \* 排除类型不同的列表项
       /\ drag.subtype # d.sub[t]
       /\ drag.type = TypeOf(d, t)
    \/ drag.type # "NodeListItem" /\ TypeOf(d, t) = "NodeListItem"

\* the edges of every block alike, list items too
ZonesAlike(d, drag, t) ==
    IF drag.dash THEN {"top", "bottom"}
    ELSE {"left", "right", "top", "bottom"}

\* the class the pointer's position gives a block that is the cached target
ZonesOf(d, drag, t) ==
    IF d.kind[t] = "li" \/ drag.dash THEN {"top", "bottom"}
    ELSE {"left", "right", "top", "bottom"}

Marked == {e \in Elem : cls[e] # ""}

DragOver ==
    /\ Running
    /\ UNCHANGED kernel
    /\ dragElement.from # "none"
    /\ \E t \in Range(BlocksIn(dom, W1)) :
          \/ \* event.shiftKey || event.altKey
             /\ cls[t] # ""
             /\ cls' = [cls EXCEPT ![t] = ""]
             /\ UNCHANGED dragoverElement
          \/ \* "性能优化，目标为同一个元素不再进行校验"
             /\ t = dragoverElement
             /\ Marked \subseteq {t} \/ Cardinality(Marked) < MaxMarked
             /\ \E z \in ZonesOf(dom, dragElement, t) : cls' = [cls EXCEPT ![t] = z]
             /\ UNCHANGED dragoverElement
          \/ \* a document of another tree is dragged from the file tree
             /\ t # dragoverElement
             /\ dragElement.dash /\ ~dragElement.own
             /\ dragoverElement' = t
             /\ UNCHANGED cls
          \/ /\ t # dragoverElement
             /\ ~(dragElement.dash /\ ~dragElement.own)
             /\ IsBlockDrag(dragElement)
             /\ ~Rejects(dom, dragElement, t)
             /\ dragoverElement' = t
             /\ UNCHANGED cls
    /\ UNCHANGED <<dom, ktree, env, dragElement, dataTransfer, gestures, plans, last,
                   dropRun>>

\* ------------------------------------------------------------- dragleave
DragLeave ==
    /\ Running
    /\ UNCHANGED kernel
    /\ \E t \in Range(BlocksIn(dom, W1)) :
          /\ cls[t] # ""
          /\ cls' = [cls EXCEPT ![t] = ""]
    /\ UNCHANGED <<dom, ktree, env, dragElement, dragoverElement, dataTransfer, gestures,
                   plans, last, dropRun>>

\* ------------------------------------------------------------------ drop
\* editorElement.querySelector(".dragover__" + z)
FirstWith(z) ==
    LET s == BlocksIn(dom, W1)
        hits == {i \in DOMAIN s : cls[s[i]] = z}
    IN IF hits = {} THEN NoElem ELSE s[CHOOSE i \in hits : \A j \in hits : i <= j]

DropTarget ==
    IF FirstWith("bottom") # NoElem THEN FirstWith("bottom")
    ELSE IF FirstWith("top") # NoElem THEN FirstWith("top")
    ELSE IF FirstWith("left") # NoElem THEN FirstWith("left")
    ELSE FirstWith("right")

\* the elements querySelectorAll finds for one selected id, without those
\* that lie in an embedded query and are not embedded queries themselves
Found(d, scope, id) ==
    SelectSeq(scope, LAMBDA e : d.nid[e] = id /\ (d.kind[e] = "embed" \/ ~InEmbed(d, e)))

RECURSIVE FoundAll(_, _, _)
FoundAll(d, scope, ids) ==
    IF ids = <<>> THEN <<>>
    ELSE Found(d, scope, Head(ids)) \o FoundAll(d, scope, Tail(ids))

\* "gutter 或反链面板拖拽": the source elements of the drop
SourceElements(d, drag) ==
    LET selectedIds == IF drag.selectedIds # <<>> THEN drag.selectedIds ELSE <<drag.id>>
        top == IF drag.from = "gutter" THEN drag.view
               ELSE ParentOf(d, ParentOf(d, drag.el))
    IN IF top = NoElem THEN <<>> ELSE FoundAll(d, PreSeq(d, d.kids[top]), selectedIds)

\* the layouts swapped: row for a drop on the left or right edge
DispatchRows(d, t, z) ==
    IF d.kind[ParentOf(d, t)] = "sb" /\ d.lay[ParentOf(d, t)] = "col"
    THEN IF z \in {"left", "right"}
         THEN [fn |-> "dragSame", direct |-> "", isBottom |-> z = "right"]
         ELSE [fn |-> "dragSb", direct |-> "col", isBottom |-> z = "bottom"]
    ELSE IF z \in {"left", "right"}
         THEN [fn |-> "dragSb", direct |-> "row", isBottom |-> z = "right"]
         ELSE [fn |-> "dragSame", direct |-> "", isBottom |-> z = "bottom"]

\* the regime of the parent ignored: the edge alone names the planner
DispatchPlain(d, t, z) ==
    IF z \in {"left", "right"}
    THEN [fn |-> "dragSb", direct |-> "col", isBottom |-> z = "right"]
    ELSE [fn |-> "dragSame", direct |-> "", isBottom |-> z = "bottom"]

\* the planner the drop runs on target t carrying class z
Dispatch(d, t, z) ==
    IF d.kind[ParentOf(d, t)] = "sb" /\ d.lay[ParentOf(d, t)] = "col"
    THEN IF z \in {"left", "right"}
         THEN [fn |-> "dragSame", direct |-> "", isBottom |-> z = "right"]
         ELSE [fn |-> "dragSb", direct |-> "row", isBottom |-> z = "bottom"]
    ELSE IF z \in {"left", "right"}
         THEN [fn |-> "dragSb", direct |-> "col", isBottom |-> z = "right"]
         ELSE [fn |-> "dragSame", direct |-> "", isBottom |-> z = "bottom"]

Run(d, src, t, c, e) ==
    IF c.fn = "dragSb" THEN dragSb(d, src, t, c.isBottom, c.direct, e)
    ELSE dragSame(d, src, t, c.isBottom, e)

\* the state after planner call c on sources src and target t with result r
Called(c, src, t, r) ==
    /\ dom' = r.d
    /\ ktree' = IF r.committed THEN Replay(ktree, r.doOperations) ELSE ktree
    /\ env' = [env EXCEPT !.base = @ + NewPerPlan]
    /\ plans' = plans + 1
    /\ last' = [fn |-> c.fn, src |-> src, target |-> t, isBottom |-> c.isBottom,
                direct |-> c.direct, pre |-> dom, kpre |-> ktree, env |-> env,
                doOperations |-> r.doOperations,
                undoOperations |-> r.undoOperations,
                hasUndo |-> r.hasUndo, committed |-> r.committed,
                err |-> r.err, focus |-> r.focus]
    /\ dragElement' = IF r.err = "" THEN NoDrag ELSE dragElement

Restructure(src, t, c) == Called(c, src, t, Run(dom, src, t, c, env))

\* The drop listener as the planners see it: a read-only editor leaves every
\* variable alone, and the awaited requests of the alt and of the file-tree
\* branch are answered at once (a run resumed later only clears dragElement,
\* after which no planner can be called).
Drop ==
    /\ Running
    /\ UNCHANGED kernel
    /\ UNCHANGED dropRun
    /\ \/ \* "只读模式/编辑器内选中文字拖拽"
          /\ dataTransfer = "editor"
          /\ UNCHANGED vars
       \/ \* alt: block references, shift: embedded queries are inserted at the caret
          /\ dataTransfer # "editor"
          /\ dragElement.from # "none" /\ IsBlockDrag(dragElement)
          /\ dragElement' = NoDrag
          /\ UNCHANGED <<dom, ktree, env, dragoverElement, cls, dataTransfer, gestures,
                         plans, last>>
       \/ \* the blocks are moved
          /\ dataTransfer # "editor"
          /\ dragElement.from # "none" /\ IsBlockDrag(dragElement)
          /\ DropTarget # NoElem
          /\ Restructure(SourceElements(dom, dragElement), DropTarget,
                         Dispatch(dom, DropTarget, cls[DropTarget]))
          /\ cls' = [cls EXCEPT ![DropTarget] = ""]
          /\ UNCHANGED <<dragoverElement, dataTransfer, gestures>>
       \/ \* "文件树拖拽"
          /\ dataTransfer = "filetree"
          /\ ~(dragElement.from # "none" /\ IsBlockDrag(dragElement))
          /\ DropTarget # NoElem
          /\ cls' = [cls EXCEPT ![DropTarget] = IF @ \in {"bottom", "top"} THEN "" ELSE @]
          /\ dragElement' = NoDrag
          /\ UNCHANGED <<dom, ktree, env, dragoverElement, dataTransfer, gestures, plans, last>>

\* ------------------------------------------------- the runs of the listener
\* The drop listener followed run by run: each run that ends is recorded, and
\* a run that awaits a request is suspended until DropResumed.

\* a run of the listener ends on the named branch
Ends(branch) == dropRun' = [dropRun EXCEPT !.branch = branch]

\* lines 690-693
Cleared == dragElement' = NoDrag

\* the run is suspended on its first awaited request
Awaits(branch, t) ==
    /\ dropRun.awaiting = ""
    /\ dropRun' = [dropRun EXCEPT !.awaiting = branch, !.since = gestures, !.target = t]

\* the read-only editor moves the blocks all the same
ReadOnlyDropMoves ==
    /\ Running
    /\ UNCHANGED kernel
    /\ dragElement.from # "none" /\ IsBlockDrag(dragElement)
    /\ DropTarget # NoElem
    /\ Restructure(SourceElements(dom, dragElement), DropTarget,
                   Dispatch(dom, DropTarget, cls[DropTarget]))
    /\ cls' = [cls EXCEPT ![DropTarget] = ""]
    /\ Ends("disabled")
    /\ UNCHANGED <<dragoverElement, dataTransfer, gestures>>

\* "只读模式/编辑器内选中文字拖拽": the listener returns at once
ReadOnlyDrop ==
    /\ Running
    /\ UNCHANGED kernel
    /\ \E disabled \in BOOLEAN :
          /\ disabled \/ dataTransfer = "editor"
          /\ Ends(IF disabled THEN "disabled" ELSE "editor")
    /\ UNCHANGED <<dom, ktree, env, dragElement, dragoverElement, cls, dataTransfer,
                   gestures, plans, last>>

\* event.altKey: block references are inserted at the caret, each text awaited
RefsDrop ==
    /\ Running
    /\ UNCHANGED kernel
    /\ dataTransfer # "editor"
    /\ dragElement.from # "none" /\ IsBlockDrag(dragElement)
    /\ Awaits("refs", NoElem)
    /\ UNCHANGED <<dom, ktree, env, dragElement, dragoverElement, cls, dataTransfer,
                   gestures, plans, last>>

\* event.shiftKey: embedded queries are inserted at the caret
EmbedsDrop ==
    /\ Running
    /\ UNCHANGED kernel
    /\ dataTransfer # "editor"
    /\ dragElement.from # "none" /\ IsBlockDrag(dragElement)
    /\ Cleared
    /\ Ends("embeds")
    /\ UNCHANGED <<dom, ktree, env, dragoverElement, cls, dataTransfer, gestures,
                   plans, last>>

\* the blocks are moved; a planner that throws ends no run
MoveDrop ==
    /\ Running
    /\ UNCHANGED kernel
    /\ dataTransfer # "editor"
    /\ dragElement.from # "none" /\ IsBlockDrag(dragElement)
    /\ DropTarget # NoElem
    /\ Restructure(SourceElements(dom, dragElement), DropTarget,
                   Dispatch(dom, DropTarget, cls[DropTarget]))
    /\ cls' = [cls EXCEPT ![DropTarget] = ""]
    /\ IF last'.err = "" THEN Ends("moved")
       ELSE dropRun' = [dropRun EXCEPT !.branch = "thrown"]
    /\ UNCHANGED <<dragoverElement, dataTransfer, gestures>>

\* "文件树拖拽": doc2Heading is awaited for every document
FileTreeDrop ==
    /\ Running
    /\ UNCHANGED kernel
    /\ dataTransfer = "filetree"
    /\ ~(dragElement.from # "none" /\ IsBlockDrag(dragElement))
    /\ DropTarget # NoElem
    /\ Awaits("filetree", DropTarget)
    /\ UNCHANGED <<dom, ktree, env, dragElement, dragoverElement, cls, dataTransfer,
                   gestures, plans, last>>

\* "外部文件拖入编辑器中": files dragged in from outside the window, while
\* window.siyuan.dragElement is undefined
FilesDrop ==
    /\ Running
    /\ UNCHANGED kernel
    /\ dragElement.from = "none"
    /\ Cleared
    /\ Ends("files")
    /\ UNCHANGED <<dom, ktree, env, dragoverElement, cls, dataTransfer, gestures,
                   plans, last>>

\* the awaited requests of the suspended run have answered: it goes on to
\* its end
DropResumed ==
    /\ Running
    /\ UNCHANGED kernel
    /\ dropRun.awaiting # ""
    /\ Cleared
    /\ dropRun' = [NoRun EXCEPT !.branch = dropRun.awaiting]
    /\ cls' = IF dropRun.awaiting = "filetree"
              THEN [cls EXCEPT ![dropRun.target] = IF @ \in {"bottom", "top"} THEN "" ELSE @]
              ELSE cls
    /\ UNCHANGED <<dom, ktree, env, dragoverElement, dataTransfer, gestures, plans, last>>

\* the documents the runs of the listener are followed on: a paragraph and a
\* list of one item, in a Tab's editor and in a popover
SessionShape ==
    Load(<<1, 2>>, <<>>,
         << <<1, "p", "", <<>>>>, <<2, "l", "o", <<3>>>>, <<3, "li", "o", <<>>>> >>)

SessionLoads == {Desktop, Popover}

SessionInit ==
    \E l \in SessionLoads :
        /\ dom = SessionShape
        /\ env = l
        /\ ktree = KernelOf(SessionShape, l)
        /\ dragElement = NoDrag
        /\ dragoverElement = NoElem
        /\ cls = [e \in Elem |-> ""]
        /\ dataTransfer = "none"
        /\ gestures = 0
        /\ plans = 0
        /\ last = NoCall
        /\ dropRun = NoRun
        /\ KernelOff

SessionNext ==
    \/ GutterDragStart
    \/ FileTreeDragStart
    \/ DragStart
    \/ DragOver
    \/ DragLeave
    \/ ReadOnlyDrop
    \/ RefsDrop
    \/ EmbedsDrop
    \/ MoveDrop
    \/ FileTreeDrop
    \/ FilesDrop
    \/ DropResumed

SessionSpec == SessionInit /\ [][SessionNext]_vars

\* ===================================================== kernel/model/sync.go
\* Goroutines call the functions of sync.go; a call is followed statement by
\* statement where another goroutine can come in between: before the test of
\* IsMutexLocked, at Lock(), and during the sync pass.

\* cloud.IsValidCloudDirName
IsValidCloudDirName(name) == name \in {"main", "work"}

\* strings.TrimSpace and gulu.Str.RemoveInvisible
Trimmed(name) == IF name = " work" THEN "work" ELSE name

\* the calls a goroutine can make
SyncCall(fn) == [NoSyncCall EXCEPT !.fn = fn]

Callable ==
    {SyncCall("BootSyncData")}
    \cup {[SyncCall("SyncData") EXCEPT !.boot = f[1], !.exit = f[2], !.byHand = f[3]] :
            f \in {<<FALSE, FALSE, FALSE>>, <<TRUE, FALSE, FALSE>>,
                   <<FALSE, TRUE, FALSE>>, <<FALSE, FALSE, TRUE>>}}
    \cup {[SyncCall("SetSyncEnable") EXCEPT !.b = b] : b \in BOOLEAN}
    \cup {[SyncCall("SetSyncMode") EXCEPT !.mode = m] : m \in {1, 2}}
    \cup {[SyncCall("SetSyncGenerateConflictDoc") EXCEPT !.b = TRUE]}
    \cup {[SyncCall("SetCloudSyncDir") EXCEPT !.name = n] : n \in {"main", "work"}}
    \cup {[SyncCall("CreateCloudSyncDir") EXCEPT !.name = n] : n \in {" work", ""}}
    \cup {[SyncCall("RemoveCloudSyncDir") EXCEPT !.name = n] : n \in {"", "main", "work"}}

\* the functions whose first statement is syncLock.Lock()
LocksFirst ==
    {"SetSyncEnable", "SetSyncMode", "SetSyncGenerateConflictDoc", "CreateCloudSyncDir"}

SyncFns == {"BootSyncData", "SyncData"}

\* planSyncAfter(d) called by goroutine g, d in seconds
planSyncAfter(g, d) == syncPlanTime' = [after |-> d, by |-> g]

\* the call of goroutine g returns; the deferred Unlock runs if it locked
Returns(g, how, err) ==
    /\ pc' = [pc EXCEPT ![g] = "idle"]
    /\ ret' = [g |-> g, of |-> call[g], how |-> how, err |-> err]
    /\ call' = [call EXCEPT ![g] = NoSyncCall]
    /\ syncLock' = IF syncLock = g THEN 0 ELSE syncLock

\* the call of goroutine g goes on to statement to
Goes(g, to) ==
    /\ pc' = [pc EXCEPT ![g] = to]
    /\ UNCHANGED <<call, ret>>

\* what the functions never write
Fixed == <<editor, isSubscriber, calls>>

\* a goroutine calls one of the functions
Begin(g) ==
    /\ pc[g] = "idle"
    /\ calls < MaxCalls
    /\ calls' = calls + 1
    /\ sent' = 0
    /\ \E c \in Callable :
          /\ call' = [call EXCEPT ![g] = c]
          /\ pc' = [pc EXCEPT ![g] = IF c.fn \in LocksFirst THEN "lock" ELSE "start"]
    /\ UNCHANGED <<editor, isSubscriber, syncLock, Conf, syncPlanTime,
                   syncDownloadErrCount, BootSyncSucc, ExitSyncSucc, cloudDirs, ret>>

\* a Lock() that never waits
LockAnyway(g) ==
    /\ pc[g] = "lock"
    /\ syncLock' = g
    /\ Goes(g, "held")
    /\ sent' = 0
    /\ UNCHANGED <<Fixed, Conf, syncPlanTime, syncDownloadErrCount, BootSyncSucc,
                   ExitSyncSucc, cloudDirs>>

\* syncLock.Lock(): the goroutine goes on when the mutex is free
Lock(g) ==
    /\ pc[g] = "lock"
    /\ syncLock = 0
    /\ syncLock' = g
    /\ Goes(g, "held")
    /\ sent' = 0
    /\ UNCHANGED <<Fixed, Conf, syncPlanTime, syncDownloadErrCount, BootSyncSucc,
                   ExitSyncSucc, cloudDirs>>

\* syncLock.Lock() finds the mutex held: the goroutine waits
Waits(g) ==
    /\ pc[g] = "lock"
    /\ syncLock # 0
    /\ ~call[g].waited
    /\ call' = [call EXCEPT ![g].waited = TRUE]
    /\ sent' = 0
    /\ UNCHANGED <<Fixed, syncLock, Conf, syncPlanTime, syncDownloadErrCount,
                   BootSyncSucc, ExitSyncSucc, cloudDirs, pc, ret>>

\* a start that tests the mutex before the mode
SyncStartsLockFirst(g) ==
    /\ pc[g] = "start"
    /\ call[g].fn \in SyncFns
    /\ LET c == call[g] IN
       IF syncLock # 0
       THEN Returns(g, "busy", FALSE) /\ planSyncAfter(g, 30)
       ELSE IF c.fn = "SyncData" /\ ~c.boot /\ ~c.exit /\ 2 = Conf.Mode /\ ~c.byHand
       THEN Returns(g, "manual", FALSE) /\ UNCHANGED syncPlanTime
       ELSE Goes(g, "lock") /\ UNCHANGED <<syncLock, syncPlanTime>>
    /\ sent' = 0
    /\ UNCHANGED <<Fixed, Conf, syncDownloadErrCount, BootSyncSucc, ExitSyncSucc,
                   cloudDirs>>

\* lines 111-119 and 61-65: the mode, then util.IsMutexLocked(&syncLock)
SyncStarts(g) ==
    /\ pc[g] = "start"
    /\ call[g].fn \in SyncFns
    /\ LET c == call[g] IN
       IF c.fn = "SyncData" /\ ~c.boot /\ ~c.exit /\ 2 = Conf.Mode /\ ~c.byHand
       THEN Returns(g, "manual", FALSE) /\ UNCHANGED syncPlanTime
       ELSE IF syncLock # 0
       THEN Returns(g, "busy", FALSE) /\ planSyncAfter(g, 30)
       ELSE Goes(g, "lock") /\ UNCHANGED <<syncLock, syncPlanTime>>
    /\ sent' = 0
    /\ UNCHANGED <<Fixed, Conf, syncDownloadErrCount, BootSyncSucc, ExitSyncSucc,
                   cloudDirs>>

\* util.CurrentTimeMillis(): later than the latest sync
Now == Conf.Synced + 1

\* lines 90-93 and 169-172: the pass begins
PassBegins(g, pushed) ==
    /\ Conf' = [Conf EXCEPT !.Synced = Now]
    /\ sent' = pushed + 1
    /\ Goes(g, "pass")
    /\ UNCHANGED <<syncLock, syncPlanTime>>

\* the call returns before a pass begins; pushed: the messages it has sent
Stopped(g, how, pushed) ==
    /\ Returns(g, how, FALSE)
    /\ sent' = pushed
    /\ UNCHANGED <<Conf, syncPlanTime>>

\* a gate that plans the next sync as a busy mutex does
GatedSoon(g, pushed) ==
    /\ Returns(g, "gate", FALSE)
    /\ sent' = pushed + 1
    /\ planSyncAfter(g, 30)
    /\ UNCHANGED Conf

\* lines 83-88 and 162-167
Gated(g, pushed) ==
    /\ Returns(g, "gate", FALSE)
    /\ sent' = pushed + 1
    /\ planSyncAfter(g, 64 * 60)
    /\ UNCHANGED Conf

\* BootSyncData, lines 70-93, under the lock
BootGuards(g) ==
    /\ pc[g] = "held"
    /\ call[g].fn = "BootSyncData"
    /\ BootSyncSucc' = 0
    /\ IF ~Conf.Enabled \/ ~IsValidCloudDirName(Conf.CloudName) THEN Stopped(g, "off", 0)
       ELSE IF ~isSubscriber /\ ProviderSiYuan = Conf.Provider
       THEN Stopped(g, "unsubscribed", 0)
       ELSE IF 7 < syncDownloadErrCount THEN Gated(g, 0)
       ELSE PassBegins(g, 0)
    /\ UNCHANGED <<Fixed, syncDownloadErrCount, ExitSyncSucc, cloudDirs>>

\* SyncData, lines 124-172, under the lock
SyncGuards(g) ==
    /\ pc[g] = "held"
    /\ call[g].fn = "SyncData"
    /\ LET c == call[g]
           hand == IF c.byHand THEN 1 ELSE 0
           bye == IF c.exit THEN 1 ELSE 0
       IN /\ BootSyncSucc' = IF c.boot THEN 0 ELSE BootSyncSucc
          /\ ExitSyncSucc' = IF c.exit THEN 0 ELSE ExitSyncSucc
          /\ IF ~Conf.Enabled THEN Stopped(g, "off", hand)
             ELSE IF ~IsValidCloudDirName(Conf.CloudName) THEN Stopped(g, "off", hand)
             ELSE IF ~isSubscriber /\ ProviderSiYuan = Conf.Provider
             THEN Stopped(g, "unsubscribed", 0)
             ELSE IF 7 < syncDownloadErrCount /\ ~c.byHand THEN Gated(g, bye)
             ELSE PassBegins(g, bye)
    /\ UNCHANGED <<Fixed, syncDownloadErrCount, cloudDirs>>

\* bootSyncRepo / syncRepo and lines 95-105, 174-184: the pass ends with or
\* without an error; a failed download is counted, a pass without one resets
\* the count
SyncPass(g) ==
    /\ pc[g] = "pass"
    /\ \E err \in BOOLEAN :
          /\ Conf' = [Conf EXCEPT !.Stat = [synced |-> Conf.Synced, err |-> err]]
          /\ syncDownloadErrCount' =
                IF ~err THEN 0
                ELSE IF syncDownloadErrCount < MaxErrCount THEN syncDownloadErrCount + 1
                ELSE syncDownloadErrCount
          /\ Returns(g, "synced", err)
    /\ sent' = 1
    /\ UNCHANGED <<Fixed, syncPlanTime, BootSyncSucc, ExitSyncSucc, cloudDirs>>

\* SetCloudSyncDir, lines 266-268: the name is compared before the lock
SameCloudSyncDir(g) ==
    /\ pc[g] = "start"
    /\ call[g].fn = "SetCloudSyncDir"
    /\ IF Conf.CloudName = call[g].name THEN Returns(g, "same", FALSE)
       ELSE Goes(g, "lock") /\ UNCHANGED syncLock
    /\ sent' = 0
    /\ UNCHANGED <<Fixed, Conf, syncPlanTime, syncDownloadErrCount, BootSyncSucc,
                   ExitSyncSucc, cloudDirs>>

\* the writes of SetCloudSyncDir, SetSyncGenerateConflictDoc, SetSyncEnable and
\* SetSyncMode, with Conf.Save()
Written(c) ==
    IF c.fn = "SetCloudSyncDir" THEN [Conf EXCEPT !.CloudName = c.name]
    ELSE IF c.fn = "SetSyncGenerateConflictDoc" THEN [Conf EXCEPT !.GenerateConflictDoc = c.b]
    ELSE IF c.fn = "SetSyncEnable" THEN [Conf EXCEPT !.Enabled = c.b]
    ELSE [Conf EXCEPT !.Mode = c.mode]

Setters == {"SetCloudSyncDir", "SetSyncGenerateConflictDoc", "SetSyncEnable", "SetSyncMode"}

SetConf(g) ==
    /\ pc[g] = "held"
    /\ call[g].fn \in Setters
    /\ Conf' = Written(call[g])
    /\ Returns(g, "set", FALSE)
    /\ sent' = 0
    /\ UNCHANGED <<Fixed, syncPlanTime, syncDownloadErrCount, BootSyncSucc, ExitSyncSucc,
                   cloudDirs>>

\* CreateCloudSyncDir, lines 310-322
CreateCloudSyncDir(g) ==
    /\ pc[g] = "held"
    /\ call[g].fn = "CreateCloudSyncDir"
    /\ LET name == Trimmed(call[g].name) IN
       IF ~IsValidCloudDirName(name)
       THEN Returns(g, "invalid", TRUE) /\ UNCHANGED cloudDirs
       ELSE \/ Returns(g, "norepo", TRUE) /\ UNCHANGED cloudDirs      \* newRepository
            \/ Returns(g, "failed", TRUE) /\ UNCHANGED cloudDirs      \* CreateCloudRepo
            \/ Returns(g, "created", FALSE) /\ cloudDirs' = cloudDirs \cup {name}
    /\ sent' = 0
    /\ UNCHANGED <<Fixed, Conf, syncPlanTime, syncDownloadErrCount, BootSyncSucc,
                   ExitSyncSucc>>

\* RemoveCloudSyncDir, line 326: the message, then Lock()
RemoveStarts(g) ==
    /\ pc[g] = "start"
    /\ call[g].fn = "RemoveCloudSyncDir"
    /\ sent' = 1
    /\ Goes(g, "lock")
    /\ UNCHANGED <<Fixed, syncLock, Conf, syncPlanTime, syncDownloadErrCount,
                   BootSyncSucc, ExitSyncSucc, cloudDirs>>

\* RemoveCloudSyncDir, lines 331-353
RemoveCloudSyncDir(g) ==
    /\ pc[g] = "held"
    /\ call[g].fn = "RemoveCloudSyncDir"
    /\ LET name == call[g].name IN
       IF "" = name
       THEN Returns(g, "empty", FALSE) /\ sent' = 0 /\ UNCHANGED <<Conf, cloudDirs>>
       ELSE \/ Returns(g, "norepo", TRUE) /\ sent' = 0 /\ UNCHANGED <<Conf, cloudDirs>>
            \/ Returns(g, "failed", TRUE) /\ sent' = 0 /\ UNCHANGED <<Conf, cloudDirs>>
            \/ /\ Returns(g, "removed", FALSE)
               /\ cloudDirs' = cloudDirs \ {name}
               /\ IF Conf.CloudName = name
                  THEN Conf' = [Conf EXCEPT !.CloudName = "main"] /\ sent' = 2
                  ELSE sent' = 1 /\ UNCHANGED Conf
    /\ UNCHANGED <<Fixed, syncPlanTime, syncDownloadErrCount, BootSyncSucc, ExitSyncSucc>>

\* the editor while the kernel's calls are followed
EditorOff ==
    /\ dom = EmptyDom
    /\ ktree = NoData
    /\ env = Desktop
    /\ dragElement = NoDrag
    /\ dragoverElement = NoElem
    /\ cls = [e \in Elem |-> ""]
    /\ dataTransfer = "none"
    /\ gestures = 0
    /\ plans = 0
    /\ last = NoCall
    /\ dropRun = NoRun

\* the configurations conf.json can hold when the kernel starts
SavedConfs ==
    {[NewSync EXCEPT !.Enabled = e, !.Mode = m, !.CloudName = n, !.Provider = p] :
        e \in BOOLEAN, m \in {1, 2}, n \in {"main", ""},
        p \in {ProviderSiYuan, ProviderS3}}

SyncInit ==
    /\ EditorOff
    /\ KernelLoaded
    /\ Conf \in SavedConfs
    /\ syncDownloadErrCount \in {0, 7}
    /\ isSubscriber \in BOOLEAN
    /\ cloudDirs = {"main", "work"}

SyncNext ==
    \E g \in Goroutines :
        \/ Begin(g)
        \/ Lock(g)
        \/ Waits(g)
        \/ SyncStarts(g)
        \/ BootGuards(g)
        \/ SyncGuards(g)
        \/ SyncPass(g)
        \/ SameCloudSyncDir(g)
        \/ SetConf(g)
        \/ CreateCloudSyncDir(g)
        \/ RemoveStarts(g)
        \/ RemoveCloudSyncDir(g)

SyncSpec == SyncInit /\ [][SyncNext]_vars

\* ------------------------------------------------------ the editor's listeners
Next ==
    \/ GutterDragStart
    \/ FileTreeDragStart
    \/ DragStart
    \/ DragOver
    \/ DragLeave
    \/ Drop

Spec == Init /\ [][Next]_vars

\* ------------------------------------------------------ the trees after a call
\* the blocks of the documents both editors show
Blocks(d) == Range(BlockSeq(d, d.kids[W1])) \cup Range(BlockSeq(d, d.kids[W2]))

\* every super block holds two children or more
SuperBlocksFull(d) == \A e \in Blocks(d) : d.kind[e] = "sb" => Len(d.kids[e]) >= 2

\* every list holds a list item
ListsFull(d) ==
    \A e \in Blocks(d) :
        d.kind[e] = "l" => \E i \in DOMAIN d.kids[e] : d.kind[d.kids[e][i]] = "li"

\* I1: the parent of a list item is a list of its subtype
ItemsInLists(d) ==
    \A e \in Blocks(d) : d.kind[e] = "li" =>
        /\ ParentOf(d, e) # NoElem
        /\ d.kind[ParentOf(d, e)] = "l"
        /\ d.sub[ParentOf(d, e)] = d.sub[e]

\* a planner has been called / has returned without throwing
Happened == last.fn # "none"
Returned == Happened /\ last.err = ""

\* the target is a source or lies inside one
SelfOrInside(d, src, t) == \E i \in DOMAIN src : Contains(d, src[i], t)

\* the target is a proper ancestor of a source
AncestorOfSource(d, src, t) == \E i \in DOMAIN src : src[i] # t /\ Contains(d, t, src[i])

SubtypeMismatch(d, src, t) ==
    src # <<>> /\ d.kind[src[1]] = "li" /\ d.kind[t] = "li" /\ d.sub[src[1]] # d.sub[t]

TargetInEmbed(d, t) == InEmbed(d, ParentOf(d, t))
SourceInEmbed(d, src) == \E i \in DOMAIN src : InEmbed(d, ParentOf(d, src[i]))

\* the preconditions of a plan: sources that are not empty, the target not one
\* of them nor inside one (by element and by node id), nothing inside an
\* embedded query, list items only next to list items of their subtype,
\* nothing but list items next to a list item
Legal(d, src, t) ==
    /\ src # <<>>
    /\ ~SelfOrInside(d, src, t)
    /\ \A i \in DOMAIN src : ~HasClosestId(d, t, d.nid[src[i]])
    /\ ~TargetInEmbed(d, t)
    /\ ~SourceInEmbed(d, src)
    /\ ~SubtypeMismatch(d, src, t)
    /\ ~(d.kind[src[1]] # "li" /\ d.kind[t] = "li")

LegalCall == Happened /\ Legal(last.pre, last.src, last.target)

\* the editor receiving the drop shows a whole document or only a part of one
NotZoomed == last.env.host[W1].block.parentID = last.env.host[W1].block.rootID

\* the two editors show different documents
OneView == last.env.host[W1].block.rootID # last.env.host[W2].block.rootID

\* ------------------------------------------------------------------ C1
\* C1: for every legal same-document drop, replaying the committed
\* doOperations and then the committed undoOperations on the pre-drop tree
\* yields the pre-drop tree.  Violated: in an editor zoomed in on a block whose
\* parent is not the document, the undo move of the first top-level block
\* names the document as parent (lines 88, 129, 281, 330, 368, 417).
C1_RoundTrip ==
    (LegalCall /\ last.hasUndo) =>
        Replay(Replay(last.kpre, last.doOperations), last.undoOperations) = last.kpre

\* the round trip holds where the editor shows the whole document
RoundTripUnzoomed ==
    (LegalCall /\ last.hasUndo /\ NotZoomed) =>
        Replay(Replay(last.kpre, last.doOperations), last.undoOperations) = last.kpre

\* ------------------------------------------------------------------ C2
\* C2: after a call on a tree whose super blocks hold two children or more,
\* every super block of the resulting tree holds two children or more; stated
\* here for the calls that meet the preconditions of a plan.  Violated: list
\* items dragged from a second editor of the same document to the side of
\* their own list leave the new super block with the new list alone.
C2_SuperBlocksKept ==
    (LegalCall /\ SuperBlocksFull(last.pre)) => SuperBlocksFull(dom)

\* with the two editors on different documents no legal call breaks it
SuperBlocksKeptOneView ==
    (LegalCall /\ OneView /\ SuperBlocksFull(last.pre)) => SuperBlocksFull(dom)

\* ------------------------------------------------------------------ C3
\* C3: after any call no list of the resulting tree is without a list item.
\* Violated by calls whose target is a source or inside one (see C6).
C3_ListsKept == (Happened /\ ListsFull(last.pre)) => ListsFull(dom)

\* no call that meets the preconditions of a plan breaks it
ListsKeptWhenLegal == (LegalCall /\ ListsFull(last.pre)) => ListsFull(dom)

\* ------------------------------------------------------------------ C4
\* the kernel's root of the document editor w shows
RootOf(w) == last.env.host[w].block.rootID

\* the call took the last block out of the root element of editor w
Emptied(w) == Returned /\ last.pre.kids[w] # <<>> /\ dom.kids[w] = <<>>

\* the root holds one new empty paragraph and nothing else
OneEmptyLeaf(k, root, id) ==
    /\ k[root].kids = <<id>>
    /\ k[id] = [Blank EXCEPT !.kind = "p"]

\* what lines 215-220 ask of the emptied root: no MOBILE build, the editor of
\* a Tab (no block__edit popover) showing the whole document
Guarded(w) ==
    /\ ~last.env.mobile
    /\ last.env.host[w].kind = "tab"
    /\ last.env.host[w].block.id = last.env.host[w].block.rootID

C5_ItemsKept == (Happened /\ ItemsInLists(last.pre)) => ItemsInLists(dom)

\* no call that meets the preconditions of a plan breaks it
ItemsKeptWhenLegal == (LegalCall /\ ItemsInLists(last.pre)) => ItemsInLists(dom)

\* ------------------------------------------------------------------ C6
\* C6: for every sequence of events no planner is called with a target that
\* is a source or a descendant of a source.  Violated: dragover accepts the
\* cached dragoverElement without checking it (lines 723-749), and the cache
\* outlives the gesture that filled it; line 750 fills it unchecked.
C6_NoSelfTarget == Happened => ~SelfOrInside(last.pre, last.src, last.target)

\* ------------------------------------------------------------------ C7
\* the ids dragover reads from the dragged element
DraggedIds == IF dragElement.selectedIds # <<>> THEN dragElement.selectedIds
              ELSE <<dragElement.id>>

\* block t of the receiving editor holds a dragged node and lies in none
HoldsDragged(t) ==
    /\ \E i \in DOMAIN DraggedIds : \E e \in Subtree(dom, t) \ {t} :
          dom.nid[e] = DraggedIds[i]
    /\ \A i \in DOMAIN DraggedIds : ~HasClosestId(dom, t, DraggedIds[i])

C8_NoSubtypeMismatch == Happened => ~SubtypeMismatch(last.pre, last.src, last.target)

\* ------------------------------------------------------------------ C9
\* C9: for every sequence of events no planner is called with a target
\* inside an embedded query, and no node inside an embedded query is among
\* the sources.  Violated: the cache is filled unchecked (line 750) and an
\* embedded query rendered inside another passes the filter of line 594.
C9_NoEmbed ==
    Happened => /\ ~TargetInEmbed(last.pre, last.target)
                /\ ~SourceInEmbed(last.pre, last.src)

\* ----------------------------------------------------------------- C10
\* C10: every call commits exactly one transaction, with undoOperations
\* exactly when the receiving editor holds the first source.  Violated: a
\* call whose target lies inside a source throws before its transaction
\* (see C6).
C10_OneTransaction ==
    Happened => /\ last.committed
                /\ last.hasUndo = Contains(last.pre, W1, last.src[1])

\* every call that returns commits as C10 says
OneTransactionWhenReturned ==
    Returned => /\ last.committed
                /\ last.hasUndo = Contains(last.pre, W1, last.src[1])

\* ------------------------------------------------------------------ C11
\* the undo operations that take the sources back
IsSourceMove(op) ==
    op.action = "move" /\ \E i \in DOMAIN last.src : op.id = last.pre.nid[last.src[i]]

\* no `update` is the last undo operation, and none comes after the undo move
\* of a source
UpdatesLead(undo) ==
    /\ undo # <<>> => undo[Len(undo)].action # "update"
    /\ \A i, j \in DOMAIN undo :
          (undo[i].action = "update" /\ IsSourceMove(undo[j])) => i < j

\* C11: in the undoOperations of every call that meets the preconditions of a
\* plan and returns, the renumbering `update` operations stand before the undo
\* moves of the sources and no `update` is the last operation.  Violated:
\* dragSame puts the updates of the list the sources left at index
\* targetElement.parentElement.childElementCount - 1 (line 475), which is the
\* end of the array when the target's parent holds enough children.
C11_UndoUpdatesFirst == (LegalCall /\ Returned) => UpdatesLead(last.undoOperations)

\* dragSb puts every undo update at the front
UndoUpdatesFirstInSb ==
    (LegalCall /\ Returned /\ last.fn = "dragSb") => UpdatesLead(last.undoOperations)

\* ------------------------------------------------------------------ C12
\* the ordered lists of tree k
OrderedLists(k) == {n \in KIds : k[n].kind = "l" /\ k[n].sub = "o"}

\* I5: the items of list n carry the indices 1, 2, ... of their positions
InOrder(k, n) == \A i \in DOMAIN k[n].kids : k[k[n].kids[i]].num = i

\* the call changed which items ordered list n holds (a new list held none)
MembershipChanged(n) ==
    /\ n \in OrderedLists(ktree)
    /\ Range(ktree[n].kids) # Range(last.kpre[n].kids)

\* an `update` of doOperations records item n as the tree now has it
Recorded(n) ==
    \E i \in DOMAIN last.doOperations :
        /\ last.doOperations[i].action = "update"
        /\ last.doOperations[i].data[n] = ktree[n]

RenumberedAndRecorded(n) ==
    /\ InOrder(ktree, n)
    /\ \A i \in DOMAIN ktree[n].kids : Recorded(ktree[n].kids[i])

\* C12: after a call that meets the preconditions of a plan and returns, every
\* ordered list whose membership the call changed is numbered 1, 2, ... and
\* doOperations holds `update` operations recording its items as numbered.
\* Violated: dragSb never renumbers the ordered list it makes for list items
\* (lines 53-108 have no updateListOrder, lines 298-310 of dragSame do).
C12_Renumbered ==
    (LegalCall /\ Returned) => \A n \in KIds : MembershipChanged(n) => RenumberedAndRecorded(n)

\* dragSame renumbers the list it makes and the list of the target
RenumberedBySame ==
    (LegalCall /\ Returned /\ last.fn = "dragSame") =>
        \A n \in KIds :
            (MembershipChanged(n) /\ (~KHas(last.kpre, n) \/ n = KParent(ktree, last.pre.nid[last.target])))
                => RenumberedAndRecorded(n)

\* ------------------------------------------------------------------ C13
\* the previous sibling of node n in tree k, Undef for a first child
KPrev(k, n) ==
    LET p == KParent(k, n) IN
    IF p = Undef \/ IndexOf(n, k[p].kids) = 1 THEN Undef
    ELSE k[p].kids[IndexOf(n, k[p].kids) - 1]

\* node ids of the single source and of the target of the latest call
SourceId == last.pre.nid[last.src[1]]
TargetId == last.pre.nid[last.target]

\* scenario A: one leaf dropped after a leaf that is its sibling
ScenarioA ==
    /\ LegalCall /\ Returned /\ last.hasUndo
    /\ last.fn = "dragSame" /\ last.isBottom
    /\ Len(last.src) = 1
    /\ last.pre.kind[last.src[1]] = "p" /\ last.pre.kind[last.target] = "p"
    /\ ParentOf(last.pre, last.src[1]) = ParentOf(last.pre, last.target)

OneMoveEachWay ==
    /\ Len(last.doOperations) = 1
    /\ last.doOperations[1].action = "move"
    /\ last.doOperations[1].id = SourceId
    /\ last.doOperations[1].previousID = TargetId
    /\ Len(last.undoOperations) = 1
    /\ last.undoOperations[1].action = "move"
    /\ last.undoOperations[1].id = SourceId
    /\ last.undoOperations[1].previousID = KPrev(last.kpre, SourceId)
    /\ last.undoOperations[1].parentID = KParent(last.kpre, SourceId)

\* C13: a single leaf dropped after a leaf that is its sibling gives one do
\* `move` of the leaf with the target as previousID and one undo `move` of the
\* leaf with its original previous sibling and its original parent.  Violated
\* in a zoomed-in editor, where the undo move names the document as parent
\* (see C1).
C13_ScenarioA == ScenarioA => OneMoveEachWay

\* it holds where the editor shows the whole document
ScenarioAUnzoomed == (ScenarioA /\ NotZoomed) => OneMoveEachWay

\* ------------------------------------------------------------------ C14
RECURSIVE KTopAlone(_, _)
\* the topmost ancestor of node n that holds nothing but n, in tree k
KTopAlone(k, n) ==
    LET p == KParent(k, n) IN
    IF p = Undef \/ k[p].kind \notin {"bq", "sb", "l", "li"} \/ Len(k[p].kids) # 1 THEN n
    ELSE KTopAlone(k, p)

RECURSIVE KInList(_, _)
\* node n lies inside a list of tree k
KInList(k, n) ==
    LET p == KParent(k, n) IN
    IF p = Undef THEN FALSE ELSE k[p].kind \in {"l", "li"} \/ KInList(k, p)

\* the position of the first operation of ops with the action and the id
OpAt(ops, action, id) ==
    IF \E i \in DOMAIN ops : ops[i].action = action /\ ops[i].id = id
    THEN CHOOSE i \in DOMAIN ops :
            /\ ops[i].action = action /\ ops[i].id = id
            /\ \A j \in DOMAIN ops : (ops[j].action = action /\ ops[j].id = id) => i <= j
    ELSE 0

\* scenario B: the only item of a list dropped after a leaf outside lists
ScenarioB ==
    /\ LegalCall /\ Returned /\ last.hasUndo
    /\ last.fn = "dragSame" /\ last.isBottom
    /\ Len(last.src) = 1
    /\ last.pre.kind[last.src[1]] = "li"
    /\ last.pre.kind[ParentOf(last.pre, last.src[1])] = "l"
    /\ Len(last.pre.kids[ParentOf(last.pre, last.src[1])]) = 1
    /\ last.pre.kind[last.target] = "p"
    /\ ~KInList(last.kpre, TargetId)

\* the list the item was in, the container deleted with it, the new list
OldList == KParent(last.kpre, SourceId)
Emptied14 == KTopAlone(last.kpre, SourceId)
NewList == last.env.base

WrappedAndCleared ==
    LET do == last.doOperations
        undo == last.undoOperations
    IN /\ ~KHas(last.kpre, NewList)
       /\ Len(do) >= 3
       /\ do[1].action = "insert" /\ do[1].id = NewList
       /\ do[1].previousID = TargetId /\ do[1].data[NewList].kind = "l"
       /\ do[2].action = "move" /\ do[2].id = SourceId /\ do[2].parentID = NewList
       /\ OpAt(do, "delete", Emptied14) > 2
       /\ ktree[NewList].kids = <<SourceId>>
       /\ KPrev(ktree, NewList) = TargetId
       /\ ~KHas(ktree, OldList) /\ ~KHas(ktree, Emptied14)
       /\ OpAt(undo, "insert", Emptied14) > 0
       /\ undo[OpAt(undo, "insert", Emptied14)].data[OldList].kind = "l"
       /\ OpAt(undo, "insert", Emptied14) < OpAt(undo, "move", SourceId)
       /\ undo[OpAt(undo, "move", SourceId)].parentID = OldList
       /\ OpAt(undo, "move", SourceId) < OpAt(undo, "delete", NewList)
       /\ OpAt(undo, "delete", NewList) = Len(undo)

\* C14: when the only item of a list is dropped after a leaf outside lists in
\* the same document, doOperations inserts a new list after the leaf, moves
\* the item into it and deletes the emptied list or its topmost solo ancestor;
\* undoOperations re-inserts the deleted container before it moves the item
\* back under its list, and ends with the delete of the new list.
C14_ScenarioB == ScenarioB => WrappedAndCleared

C14_Witness ==
    /\ ScenarioB /\ WrappedAndCleared
    /\ Len(last.undoOperations) > 3

\* ------------------------------------------------------------------ C15
\* scenario C: a top-level leaf dropped on the right edge of a top-level leaf
\* of its document, which holds no super block (outside a super block dragSb
\* runs for the left and right edges only, with isBottom for the right one)
ScenarioC ==
    /\ LegalCall /\ Returned /\ last.hasUndo
    /\ last.fn = "dragSb" /\ last.isBottom
    /\ Len(last.src) = 1
    /\ last.pre.kind[last.src[1]] = "p" /\ last.pre.kind[last.target] = "p"
    /\ ParentOf(last.pre, last.src[1]) = W1 /\ ParentOf(last.pre, last.target) = W1
    /\ \A e \in Range(BlocksIn(last.pre, W1)) : last.pre.kind[e] # "sb"

NewSb == last.env.base + 1

\* the super block of the given layout stands where the target stood and
\* holds the target and the source; the undo takes the target back and ends
\* with the delete of the super block
Nested(layout) ==
    LET do == last.doOperations
        undo == last.undoOperations
        top == KParent(last.kpre, TargetId)
    IN /\ ~KHas(last.kpre, NewSb)
       /\ do[1].action = "insert" /\ do[1].id = NewSb
       /\ do[1].data[NewSb].kind = "sb" /\ do[1].data[NewSb].lay = layout
       /\ ktree[NewSb].kind = "sb" /\ ktree[NewSb].lay = layout
       /\ ktree[NewSb].kids = <<TargetId, SourceId>>
       /\ ktree[top].kids =
             [i \in DOMAIN Without(last.kpre[top].kids, SourceId) |->
                 IF Without(last.kpre[top].kids, SourceId)[i] = TargetId THEN NewSb
                 ELSE Without(last.kpre[top].kids, SourceId)[i]]
       /\ OpAt(undo, "move", TargetId) > 0
       /\ undo[OpAt(undo, "move", TargetId)].previousID = KPrev(last.kpre, TargetId)
       /\ undo[OpAt(undo, "move", TargetId)].parentID = top
       /\ OpAt(undo, "move", TargetId) < OpAt(undo, "delete", NewSb)
       /\ OpAt(undo, "delete", NewSb) = Len(undo)

SourceIds == {last.pre.nid[last.src[i]] : i \in DOMAIN last.src}

\* the tree after the first i operations of doOperations
After(i) == Replay(last.kpre, SubSeq(last.doOperations, 1, i))

\* the super blocks the tree held before the call
SuperBlocksBefore == {n \in KIds : last.kpre[n].kind = "sb" /\ Len(last.kpre[n].kids) >= 2}

\* doOperations deletes super block sb two operations after the moves left it
\* with one child that is not a source
CollapseCase(sb) ==
    /\ sb \in SuperBlocksBefore
    /\ OpAt(last.doOperations, "delete", sb) > 2
    /\ Len(After(OpAt(last.doOperations, "delete", sb) - 2)[sb].kids) = 1
    /\ After(OpAt(last.doOperations, "delete", sb) - 2)[sb].kids[1] \notin SourceIds

Collapsed(sb) ==
    LET do == last.doOperations
        undo == last.undoOperations
        n == Len(last.doOperations)
        T == After(Len(last.doOperations) - 2)
        child == After(Len(last.doOperations) - 2)[sb].kids[1]
    IN /\ OpAt(do, "delete", sb) = n
       /\ do[n - 1].action = "move" /\ do[n - 1].id = child
       /\ ~KHas(ktree, sb)
       /\ KParent(ktree, child) = KParent(T, sb)
       /\ KPrev(ktree, child) = KPrev(T, sb)
       /\ last.hasUndo =>
             /\ Len(undo) >= 2
             /\ undo[1].action = "insert" /\ undo[1].id = sb
             /\ undo[1].data[sb].kind = "sb"
             /\ undo[2].action = "move" /\ undo[2].id = child /\ undo[2].parentID = sb
             /\ \A i \in DOMAIN undo : IsSourceMove(undo[i]) => i > 2

\* C16: a super block that the moves of a returned legal call leave with one
\* child is collapsed: no super block of the old tree is left holding one
\* child; the two do operations of cancelSB are the last of doOperations, its
\* two undo operations the first of undoOperations, before the undo move of
\* any source; after replay the surviving child stands where the super block
\* stood.
C16_Collapse ==
    (LegalCall /\ Returned) =>
        \A sb \in SuperBlocksBefore :
            /\ KHas(ktree, sb) => Len(ktree[sb].kids) >= 2
            /\ CollapseCase(sb) => Collapsed(sb)

C16_Witness ==
    /\ LegalCall /\ Returned /\ last.hasUndo
    /\ \E sb \in SuperBlocksBefore : CollapseCase(sb) /\ Collapsed(sb)

\* ------------------------------------------------------------------ C17
\* the node ids of the sources, in the order of the selection
SourceSeq == [i \in DOMAIN last.src |-> last.pre.nid[last.src[i]]]

\* the sources are adjacent children of one node of tree k, in their order
AdjacentInOrder(k) ==
    \E p \in KIds : \E j \in DOMAIN k[p].kids :
        /\ j + Len(SourceSeq) - 1 <= Len(k[p].kids)
        /\ SubSeq(k[p].kids, j, j + Len(SourceSeq) - 1) = SourceSeq

\* C17: after the doOperations of a returned legal call are replayed, the
\* moved nodes are adjacent siblings in the order they had in the selection.
\* Violated: dragSb has no counterpart of lines 321-324 of dragSame; when the
\* target is the solo ancestor of the source, getTopAloneElement climbs into
\* the new super block and the delete of topSourceElement takes the super
\* block, the target and the source with it.
C17_OrderKept == (LegalCall /\ Returned) => AdjacentInOrder(ktree)

\* dragSame keeps the order in all its branches
OrderKeptBySame ==
    (LegalCall /\ Returned /\ last.fn = "dragSame") => AdjacentInOrder(ktree)

\* so does dragSb when the target holds no source
OrderKeptBySb ==
    (LegalCall /\ Returned /\ ~AncestorOfSource(last.pre, last.src, last.target)) =>
        AdjacentInOrder(ktree)

\* ------------------------------------------------------------------ C18
\* C18: after a returned legal call the block given to focusBlock is the first
\* source of the selection.  Violated: sourceElements.reverse() reverses the
\* array in place (lines 77, 118, 270, 316, 357), so sourceElements[0] at
\* lines 242 and 551 is the last source in every branch but the one of line
\* 403.
C18_FocusFirst == (LegalCall /\ Returned) => last.focus = last.src[1]

\* the focus is the first source where the array is not reversed, and the
\* last source everywhere else
FocusByBranch ==
    (LegalCall /\ Returned) =>
        last.focus = IF /\ last.fn = "dragSame" /\ ~last.isBottom
                        /\ ~NeedsList(last.pre, last.src, last.target)
                     THEN last.src[1]
                     ELSE last.src[Len(last.src)]

\* ------------------------------------------------------------------ C19
\* every node the operation names is in tree k: its previousID, nextID and
\* parentID, and the node it moves, updates or deletes
RefsThere(k, op) ==
    /\ op.previousID # Undef => KHas(k, op.previousID)
    /\ op.nextID # Undef => KHas(k, op.nextID)
    /\ op.parentID # Undef => KHas(k, op.parentID)
    /\ op.action \in {"move", "update", "delete"} => KHas(k, op.id)
    /\ op.action \in {"insert", "move"} =>
          (op.previousID # Undef \/ op.nextID # Undef \/ op.parentID # Undef)

RECURSIVE SafeToApply(_, _)
\* the operations can be applied to tree k one after the other
SafeToApply(k, ops) ==
    \/ ops = <<>>
    \/ RefsThere(k, Head(ops)) /\ SafeToApply(ApplyOp(k, Head(ops)), Tail(ops))

\* the insert of a node made by the plan precedes the moves into it
InsertsFirst(ops) ==
    \A i \in DOMAIN ops :
        (ops[i].action = "move" /\ ops[i].parentID # Undef /\ ~KHas(last.kpre, ops[i].parentID))
            => \E j \in 1..(i - 1) : ops[j].action = "insert" /\ ops[j].id = ops[i].parentID

\* C19: the doOperations of a returned legal call can be replayed in order on
\* the pre-drop tree: every id an operation names as parentID, previousID or
\* nextID, and the node it acts on, is in the tree when the operation is
\* applied, and the insert of a new super block or list precedes every move
\* that names it as parent.
C19_DoSafe ==
    (LegalCall /\ Returned) =>
        /\ SafeToApply(last.kpre, last.doOperations)
        /\ InsertsFirst(last.doOperations)

\* a call that made a super block and a list, deleted the emptied list and
\* collapsed a super block
C19_Witness ==
    /\ LegalCall /\ Returned
    /\ SafeToApply(last.kpre, last.doOperations)
    /\ last.fn = "dragSb" /\ NeedsList(last.pre, last.src, last.target)
    /\ \E i \in DOMAIN last.doOperations :
          last.doOperations[i].action = "delete" /\ i < Len(last.doOperations)

\* ------------------------------------------------------------------ C20
\* node n of the old tree has in tree k the parent the old tree gave it
Located(k, n) == KHas(last.kpre, n) => KParent(k, n) = KParent(last.kpre, n)

\* the new nodes of kind sb or l
Synthesized(k, n) == ~KHas(last.kpre, n) /\ KHas(k, n) /\ k[n].kind \in {"sb", "l"}

\* what undo operation op needs of tree k: the nodes it names are there, and
\* a new super block or list it deletes holds no node of the old tree
UndoRefsThere(k, op) ==
    /\ RefsThere(k, op)
    /\ (op.action = "delete" /\ Synthesized(k, op.id)) =>
          \A n \in KSub(k, op.id) \ {op.id} : ~KHas(last.kpre, n)

\* moreover the nodes named are where the old tree had them
UndoRefsInPlace(k, op) ==
    /\ UndoRefsThere(k, op)
    /\ op.previousID # Undef => Located(k, op.previousID)
    /\ op.parentID # Undef => Located(k, op.parentID)

RECURSIVE UndoSafe(_, _, _)
UndoSafe(k, ops, inPlace) ==
    \/ ops = <<>>
    \/ /\ IF inPlace THEN UndoRefsInPlace(k, Head(ops)) ELSE UndoRefsThere(k, Head(ops))
       /\ UndoSafe(ApplyOp(k, Head(ops)), Tail(ops), inPlace)

\* the insert of a deleted container precedes the moves into it
ReinsertsFirst(ops) ==
    \A i, j \in DOMAIN ops :
        (/\ ops[i].action = "insert" /\ KHas(last.kpre, ops[i].id)
         /\ ops[j].action = "move" /\ ops[j].parentID \in KSub(last.kpre, ops[i].id))
            => i < j

\* C20 as stated: the undoOperations of a returned legal same-document call
\* can be replayed in order on the post-drop tree, every node named as
\* previousID or parentID being there and where the old tree had it.
C20_UndoSafeInPlace ==
    (LegalCall /\ Returned /\ last.hasUndo) =>
        /\ UndoSafe(ktree, last.undoOperations, TRUE)
        /\ ReinsertsFirst(last.undoOperations)

C20_UndoSafe ==
    (LegalCall /\ Returned /\ last.hasUndo) =>
        /\ UndoSafe(ktree, last.undoOperations, FALSE)
        /\ ReinsertsFirst(last.undoOperations)

\* the stated property fails in an editor that shows the whole document too
UndoSafeInPlaceUnzoomed ==
    (LegalCall /\ Returned /\ last.hasUndo /\ NotZoomed) =>
        UndoSafe(ktree, last.undoOperations, TRUE)

\* a replay that re-inserts an emptied container of the old tree and deletes a
\* new super block or list
C20_Witness ==
    /\ LegalCall /\ Returned /\ last.hasUndo
    /\ UndoSafe(ktree, last.undoOperations, FALSE)
    /\ \E i, j, m \in DOMAIN last.undoOperations :
          /\ last.undoOperations[i].action = "insert"
          /\ KHas(last.kpre, last.undoOperations[i].id)
          /\ last.undoOperations[m].action = "move"
          /\ last.undoOperations[m].parentID = last.undoOperations[i].id
          /\ last.undoOperations[j].action = "delete"
          /\ Synthesized(ktree, last.undoOperations[j].id)
          /\ i < m /\ m < j

\* ------------------------------------------------------------------ C21
\* the lists the call renumbered: the ordered list of the target or the one
\* the sources left, when doOperations updates its children
RenumberedLists ==
    {l \in {ParentOf(dom, last.target), ParentOf(last.pre, last.src[1])} \ {NoElem} :
                  /\ dom.kind[l] = "l" /\ dom.sub[l] = "o" /\ dom.kids[l] # <<>>
                  /\ \A i \in DOMAIN dom.kids[l] :
                        OpAt(last.doOperations, "update", dom.nid[dom.kids[l][i]]) > 0}

\* the renumbering step of lines 437-460 run once more on list l of the DOM
\* the call left
Again(l) ==
    Ordered([Start(dom, <<l>>) EXCEPT !.err = ""], l, 0, updateListOrder(dom, l))

\* every `update` of doOperations changes the tree it is applied to
UpdatesChange ==
    \A i \in DOMAIN last.doOperations :
        last.doOperations[i].action = "update" => After(i) # After(i - 1)

Swapped(s, x, y) == [i \in DOMAIN s |-> IF s[i] = y THEN x ELSE s[i]]

\* the insert of the new super block puts it exactly where the target is:
\* once the target is taken away, its parent holds the super block in the
\* target's place and is otherwise unchanged
SbTakesPlace ==
    LET j == OpAt(last.doOperations, "insert", NewSb)
        p == KParent(After(j - 1), TargetId)
    IN /\ j > 0
       /\ p # Undef
       /\ KParent(After(j), NewSb) = p
       /\ Without(After(j)[p].kids, TargetId) = Swapped(After(j - 1)[p].kids, NewSb, TargetId)

\* the children the new super block has in the end
SbHolds ==
    IF NeedsList(last.pre, last.src, last.target)
    THEN /\ ~KHas(last.kpre, NewList)
         /\ ktree[NewList].kind = "l"
         /\ ktree[NewList].kids = SourceSeq
         /\ ktree[NewSb].kids = IF last.isBottom THEN <<TargetId, NewList>>
                                ELSE <<NewList, TargetId>>
    ELSE ktree[NewSb].kids = IF last.isBottom THEN <<TargetId>> \o SourceSeq
                             ELSE SourceSeq \o <<TargetId>>

SbCall == LegalCall /\ Returned /\ last.fn = "dragSb"

\* C22: after a dragSb call that meets the preconditions of a plan, the new
\* super block was put exactly where the target was, and it holds the sources
\* followed by the target (isBottom false) or the target followed by the
\* sources (isBottom true), list items dropped at a block that is no list item
\* being held by one new list.  Violated: a target that holds nothing but the
\* sources is deleted as the emptied chain (lines 186-208; dragSb lacks the
\* correction of lines 321-324), and the new super block is collapsed or
\* deleted with it (see C17); with one document in two editors the target's
\* element is removed as a duplicate (see C2).
C22_CrossAxis ==
    SbCall => (/\ ktree[NewSb].kind = "sb"
               /\ ktree[NewSb].lay = last.direct
               /\ SbTakesPlace
               /\ SbHolds)

\* it holds where the target holds no source and the editors show two documents
CrossAxisElsewhere ==
    (SbCall /\ OneView /\ ~AncestorOfSource(last.pre, last.src, last.target)) =>
        (/\ ktree[NewSb].kind = "sb"
         /\ ktree[NewSb].lay = last.direct
         /\ SbTakesPlace
         /\ SbHolds)

\* ------------------------------------------------------------------ C23
\* sequence s holds the sequence t as adjacent elements
HoldsRun(s, t) ==
    \E j \in 0..(Len(s) - Len(t)) : SubSeq(s, j + 1, j + Len(t)) = t

\* the moved nodes, or the new list that holds them, are children of the
\* target's parent, right after the target (isBottom) or right before it
SameHolds ==
    LET p == KParent(ktree, TargetId)
        moved == IF NeedsList(last.pre, last.src, last.target) THEN <<NewList>>
                 ELSE SourceSeq
    IN /\ p # Undef
       /\ HoldsRun(ktree[p].kids, IF last.isBottom THEN <<TargetId>> \o moved
                                  ELSE moved \o <<TargetId>>)
       /\ IF NeedsList(last.pre, last.src, last.target)
          THEN /\ ~KHas(last.kpre, NewList)
               /\ ktree[NewList].kind = "l"
               /\ ktree[NewList].kids = SourceSeq
          ELSE /\ ~KHas(ktree, NewList)
               /\ \A i \in DOMAIN last.doOperations : last.doOperations[i].action # "insert"
                     \/ last.doOperations[i].id = last.env.base + 2

SameCall == LegalCall /\ Returned /\ last.fn = "dragSame"

\* C23: after a dragSame call that meets the preconditions of a plan, the
\* moved nodes (or the new list holding them) are children of the target's
\* parent, right after the target when isBottom is true and right before it
\* when isBottom is false; a list is made exactly when the first source is a
\* list item and the target is not.
C23_SameAxis == SameCall => SameHolds

\* s with the sequence t in the place of its element y
Spliced(s, y, t) ==
    SubSeq(s, 1, IndexOf(y, s) - 1) \o t \o SubSeq(s, IndexOf(y, s) + 1, Len(s))

\* the target was deleted, as the emptied chain when it held nothing but the
\* sources or as a super block left with one child: the moved nodes, or the
\* new list, stand in its place, on the side asked for of the child that
\* replaces a collapsed super block
SameReplaces ==
    LET p == KParent(last.kpre, TargetId)
        moved == IF NeedsList(last.pre, last.src, last.target) THEN <<NewList>>
                 ELSE SourceSeq
        rest == SelectSeq(last.kpre[TargetId].kids,
                          LAMBDA c : KHas(ktree, c) /\ KParent(ktree, c) = p
                                     /\ ~InSeq(c, SourceSeq))
    IN /\ p # Undef
       /\ Len(rest) <= 1
       /\ rest # <<>> => last.kpre[TargetId].kind = "sb"
       /\ \A i \in DOMAIN SourceSeq : SourceSeq[i] \in KSub(last.kpre, TargetId)
       /\ \A n \in KSub(last.kpre, TargetId) :
             KHas(ktree, n) \/ SourceSeq[1] \in KSub(last.kpre, n)
       /\ ktree[p].kids = Spliced(last.kpre[p].kids, TargetId,
                                  IF last.isBottom THEN rest \o moved ELSE moved \o rest)
       /\ NeedsList(last.pre, last.src, last.target) =>
             /\ ~KHas(last.kpre, NewList)
             /\ ktree[NewList].kind = "l"
             /\ ktree[NewList].kids = SourceSeq
       /\ OpAt(last.doOperations, "delete", TargetId) > 0

\* C23 amended: as C23 while the target is still in the tree; a target that
\* held nothing but the sources is deleted as the emptied container, and a
\* super block target left with one child is collapsed: then the moved nodes
\* (or the new list holding them) take the target's place among the children
\* of its parent, before or after the child that replaces the super block.
C23_SameAxisOrPlace ==
    SameCall => IF KHas(ktree, TargetId) THEN SameHolds ELSE SameReplaces

C23_Witness ==
    /\ SameCall /\ SameHolds
    /\ Len(last.src) = 2
    /\ ~NeedsList(last.pre, last.src, last.target)
    /\ ~last.isBottom
    /\ KParent(last.kpre, SourceId) # KParent(last.kpre, TargetId)

\* ------------------------------------------------------------------ C24
\* how many operations of ops have the action and the id
Count(ops, action, id) ==
    Cardinality({i \in DOMAIN ops : ops[i].action = action /\ ops[i].id = id})

\* the nodes doOperations inserts, deletes and moves
Created == {n \in KIds : ~KHas(last.kpre, n) /\ Count(last.doOperations, "insert", n) > 0}
Deleted == {n \in KIds : KHas(last.kpre, n) /\ Count(last.doOperations, "delete", n) > 0}
MovedIds == {n \in KIds : KHas(last.kpre, n) /\ Count(last.doOperations, "move", n) > 0}

\* every new node is inserted once and its insert undone by one delete, every
\* deleted node of the old tree is deleted once and re-inserted once by the
\* undo, every moved node of the old tree has one undo move
Mirrored ==
    /\ last.fn = "dragSb" => NewSb \in Created
    /\ NeedsList(last.pre, last.src, last.target) => NewList \in Created
    /\ \A n \in Created : /\ Count(last.doOperations, "insert", n) = 1
                          /\ Count(last.undoOperations, "delete", n) = 1
    /\ \A n \in Deleted : /\ Count(last.doOperations, "delete", n) = 1
                          /\ Count(last.undoOperations, "insert", n) = 1
    /\ \A n \in MovedIds : Count(last.undoOperations, "move", n) = 1

UndoMoveOf(n) == last.undoOperations[OpAt(last.undoOperations, "move", n)]

\* the undo move of n names the previous sibling and the parent n had in the
\* old tree
CarriesOldPlace(n) ==
    /\ UndoMoveOf(n).previousID = KPrev(last.kpre, n)
    /\ UndoMoveOf(n).parentID = KParent(last.kpre, n)

RECURSIVE StandIn(_, _)
\* the last node of s that the plan neither moves as a source nor deletes,
\* Undef when there is none;
\* the new super block stands for the target it replaced
StandIn(s, sb) ==
    IF s = <<>> THEN Undef
    ELSE IF s[Len(s)] \in SourceIds \cup Deleted THEN StandIn(SubSeq(s, 1, Len(s) - 1), sb)
    ELSE IF sb /\ s[Len(s)] = TargetId THEN NewSb
    ELSE s[Len(s)]

\* the undo move of n names the previous sibling n had when it was moved: the
\* one of the old tree, or what stands in its place once sources have left
\* and the target has been replaced, or a source moved before it; and the
\* parent of the old tree, the document's root for a block without a parent
\* block
CarriesPlaceWhenMoved(n) ==
    LET p  == KParent(last.kpre, n)
        ks == last.kpre[p].kids
    IN /\ UndoMoveOf(n).previousID \in
             {KPrev(last.kpre, n),
              StandIn(SubSeq(ks, 1, IndexOf(n, ks) - 1), last.fn = "dragSb")}
             \cup (IF n \in SourceIds THEN SourceIds \ {n} ELSE {})
       /\ UndoMoveOf(n).parentID \in
             {p} \cup (IF last.kpre[p].kind \in {"doc", "bq"} /\ p = last.env.host[W1].block.parentID
                       THEN {last.env.host[W1].block.rootID} ELSE {})

UndoCall == LegalCall /\ Returned /\ last.hasUndo

\* C24: creations and deletions are mirrored and every moved node has one
\* undo move carrying the previous sibling and the parent it had before the
\* plan began.  Violated: dragSb called with a target that holds nothing but
\* the sources deletes the target and collapses the new super block, moving a
\* source twice (see C17); besides, the undo move is recorded when the node is
\* moved (lines 84-89, 277-282), after earlier sources have left and the super
\* block has replaced the target, and names the document for a top-level
\* block of a zoomed-in editor (see C1).
C24_Mirrored ==
    UndoCall => (Mirrored /\ \A n \in MovedIds : CarriesOldPlace(n))

\* dragSame, and dragSb on a target that holds no source, mirror creations and
\* deletions and record one undo move per moved node, which carries the
\* previous sibling the node had at the moment it was moved
MirroredElsewhere ==
    (UndoCall /\ (last.fn = "dragSame" \/ ~AncestorOfSource(last.pre, last.src, last.target)))
        => (Mirrored /\ \A n \in MovedIds : CarriesPlaceWhenMoved(n))

\* ------------------------------------------------------------------ C25
\* the id of the empty leaf a call makes for an emptied root
NewLeaf == last.env.base + 2

\* the leaf's insert and delete head the two arrays
LeafFirst ==
    /\ last.doOperations # <<>>
    /\ last.doOperations[1].action = "insert"
    /\ last.doOperations[1].id = NewLeaf
    /\ Count(last.doOperations, "insert", NewLeaf) = 1
    /\ last.undoOperations # <<>>
    /\ last.undoOperations[1] = Delete(NewLeaf)
    /\ Count(last.undoOperations, "delete", NewLeaf) = 1

\* the sources were taken out of the root of editor w, which the call emptied
SourcesEmptied(w) == Emptied(w) /\ Contains(last.pre, w, last.src[1])

\* C25: when a call takes the last block out of the root the sources were in
\* and the guard of lines 215-220 holds for it, and whenever a leaf is made,
\* the insert of the new empty leaf is the first operation of doOperations and
\* its delete the first of undoOperations, ahead of every move, renumbering
\* and collapse operation.
C25_LeafFirst ==
    /\ \A w \in {W1, W2} : (SourcesEmptied(w) /\ Guarded(w)) => LeafFirst
    /\ (Returned /\ Count(last.doOperations, "insert", NewLeaf) > 0) => LeafFirst

\* a root emptied by a call that also moved two blocks and deleted or updated
\* another
C25_Witness ==
    /\ SourcesEmptied(W2) /\ Guarded(W2) /\ LeafFirst
    /\ Len(last.doOperations) >= 4
    /\ \E i \in DOMAIN last.doOperations : last.doOperations[i].action \in {"delete", "update"}
    /\ Len(last.undoOperations) >= 3

\* ------------------------------------------------------------------ C26
\* the element that held the sources before the call, and its node
FormerContainer == ParentOf(last.pre, last.src[1])
FormerId == last.pre.nid[FormerContainer]

\* the children of node c other than the sources, the target and new nodes
Remaining(k, c) ==
    SelectSeq(k[c].kids,
              LAMBDA x : x \notin SourceIds /\ x # TargetId /\ KHas(last.kpre, x))

\* the container is still in the tree with the children the sources left it,
\* and no operation is an operation on it
ContainerKept ==
    /\ KHas(ktree, FormerId)
    /\ Remaining(ktree, FormerId) = Remaining(last.kpre, FormerId)
    /\ ktree[FormerId].kids # <<>>
    /\ \A i \in DOMAIN last.doOperations : last.doOperations[i].id # FormerId
    /\ \A i \in DOMAIN last.undoOperations : last.undoOperations[i].id # FormerId

\* the sources' container is a block quote or a list item
PlainContainer ==
    /\ LegalCall /\ Returned
    /\ FormerContainer # NoElem
    /\ last.pre.kind[FormerContainer] \in {"bq", "li"}

\* the container held a block that is no source
KeepsChild ==
    \E i \in DOMAIN last.pre.kids[FormerContainer] :
        ~InSeq(last.pre.kids[FormerContainer][i], last.src)

UniqueIds(d, w) ==
    \A a, b \in Range(BlocksIn(d, w)) : d.nid[a] = d.nid[b] => a = b

\* a returned call that took its sources from the other editor, which shows
\* the same document
CrossView ==
    /\ LegalCall /\ Returned
    /\ ~OneView
    /\ Contains(last.pre, W2, last.src[1])
    /\ UniqueIds(last.pre, W1)

\* the ids are unique in the receiving editor
UniqueAfter == CrossView => UniqueIds(dom, W1)

\* C27: after a call that moves blocks from another editor of the same
\* document, no node id occurs twice in the receiving editor, and the
\* duplicates removed are neither the target nor an ancestor of it: the target
\* is still in the receiving editor.  Violated: the duplicate of the deleted
\* emptied container is removed (lines 199-205, 510-516) also when it is the
\* target.
C27_UniqueIds ==
    CrossView => (UniqueIds(dom, W1) /\ Contains(dom, W1, last.target))

\* ------------------------------------------------------------------ C28
\* the target's parent is a super block that lays its children out in columns
InColumns(d, t) == d.kind[ParentOf(d, t)] = "sb" /\ d.lay[ParentOf(d, t)] = "col"

\* the planner of the step, with its direction and its side
Ran(fn, direct, isBottom) ==
    /\ last'.fn = fn
    /\ last'.direct = direct
    /\ last'.isBottom = isBottom

\* the step runs the planner its regime names on the block carrying the class
Regime ==
    LET t == DropTarget
        z == cls[t]
    IN /\ t # NoElem
       /\ last'.target = t
       /\ last'.pre = dom
       /\ IF InColumns(dom, t)
          THEN IF z \in {"left", "right"} THEN Ran("dragSame", "", z = "right")
               ELSE Ran("dragSb", "row", z = "bottom")
          ELSE IF z \in {"left", "right"} THEN Ran("dragSb", "col", z = "right")
               ELSE Ran("dragSame", "", z = "bottom")

\* C28: a step that runs a planner runs exactly one, on a block that carries
\* a dragover class, and it is the planner of the regime: under a parent super
\* block with layout col, dragSame for the left and the right edge (isBottom
\* for right) and dragSb "row" for the top and the bottom edge (isBottom for
\* bottom); under any other parent, dragSb "col" for left and right and
\* dragSame for top and bottom.  No planner runs while no block carries a
\* class.
C28_Regime ==
    [][/\ plans' # plans => (plans' = plans + 1 /\ Regime)
       /\ last' # last => plans' # plans
       /\ Marked = {} => plans' = plans]_vars

\* each of the four cases of the regime has run
RanInColumns(fn) ==
    /\ Returned
    /\ last.fn = fn
    /\ InColumns(last.pre, last.target)

C28_Witness ==
    /\ RanInColumns("dragSb")
    /\ last.direct = "row"
    /\ last.isBottom

\* ------------------------------------------------------------------ C29
\* the list items of the receiving editor
Items == {e \in Range(BlocksIn(dom, W1)) : dom.kind[e] = "li"}

\* no list item carries the class of the left or of the right edge
ItemsAboveBelow == \A e \in Items : cls[e] \notin {"left", "right"}

\* C29: whatever the dragover events were, a list item carries no
\* dragover__left and no dragover__right, and no call of dragSb has a list
\* item as its target.
C29_ItemEdges ==
    /\ ItemsAboveBelow
    /\ Happened /\ last.fn = "dragSb" => last.pre.kind[last.target] # "li"

\* a list item carried a class at a drop: a planner ran with it as the target
C29_Witness ==
    /\ Returned
    /\ last.fn = "dragSame"
    /\ last.pre.kind[last.target] = "li"
    /\ last.pre.kind[last.src[1]] = "li"

\* ------------------------------------------------------------------ C30
\* a source that is not a list item at a target that is one
StrangerAtItem(d, src, t) ==
    d.kind[t] = "li" /\ \E i \in DOMAIN src : d.kind[src[i]] # "li"

\* every child of a list is a list item
OnlyItems(d) ==
    \A e \in Blocks(d) : d.kind[e] = "l" =>
        \A i \in DOMAIN d.kids[e] : d.kind[d.kids[e][i]] = "li"

\* the calls the checks of dragover let through leave lists of list items
OnlyItemsKept == LegalCall /\ Returned /\ OnlyItems(last.pre) => OnlyItems(dom)

\* C30: whatever the dragstart, dragover, dragleave and drop events were, no
\* planner is called with a source that is not a list item and a target that
\* is one, and after a call every child of a list is a list item.  Violated:
\* the cached target is marked without a check (lines 723-749).
C30_NoStrangerAtItem ==
    Happened =>
        /\ ~StrangerAtItem(last.pre, last.src, last.target)
        /\ last.err = "" => OnlyItems(dom)

\* ------------------------------------------------------------------ C31
\* a run of the drop listener has ended since the latest dragstart
RunEnded == dropRun.branch \notin {"", "thrown"}

\* after a run that ended, window.siyuan.dragElement is undefined
EndsCleared == RunEnded => dragElement = NoDrag

\* the same, but for the runs that return at lines 577-583
EndsClearedPastReturn ==
    (RunEnded /\ dropRun.branch \notin {"disabled", "editor"}) => dragElement = NoDrag

\* the step ends a run that was suspended since before the latest dragstart
ResumesLate ==
    /\ dropRun.awaiting # ""
    /\ dropRun'.awaiting = ""
    /\ gestures > dropRun.since

\* a run resumed after a later dragstart leaves that gesture's dragElement
ResumeKeepsLater == [][ResumesLate => dragElement' = dragElement]_vars

\* C31: after every run of the drop listener that ends, on whichever branch,
\* window.siyuan.dragElement is undefined, and a run that was suspended on an
\* awaited request and ends after a later dragstart does not clear the
\* dragElement that dragstart set.  Violated: the return of lines 577-583
\* skips lines 690-693, and lines 690-693 clear whatever dragElement is set
\* when the awaited requests have answered.
C31_SessionScoped ==
    [][/\ (dropRun'.branch \notin {"", "thrown"}) => dragElement' = NoDrag
       /\ ResumesLate => dragElement' = dragElement]_vars

\* ------------------------------------------------------------------ C32
\* the branches on which the listener returns at lines 577-583
ReturnsAtOnce == {"disabled", "editor"}

\* C32: a drop on a read-only editor, and a drop of text selected inside the
\* editor, run no planner, commit no transaction and leave the block tree of
\* the editors and of the kernel as it was.
C32_ReadOnlyIdle ==
    [][dropRun'.branch \in ReturnsAtOnce => UNCHANGED <<dom, ktree, plans, last>>]_vars

\* a gutter drag was dropped on a read-only editor while a block carried a
\* dragover class
C32_Witness ==
    /\ dropRun.branch = "disabled"
    /\ dragElement.from = "gutter"
    /\ dataTransfer = "block"
    /\ DropTarget # NoElem
    /\ plans = 0

\* ------------------------------------------------------------------ C33
\* goroutine g takes the step of lines 111-119 / 61-65 while the mutex is held
StartsLocked(g) ==
    /\ pc[g] = "start"
    /\ call[g].fn \in SyncFns
    /\ syncLock # 0
    /\ pc'[g] # "start"

\* the call of g returns there, having planned the next sync in 30 seconds
SkipsPlanned(g) ==
    /\ pc'[g] = "idle"
    /\ syncPlanTime' = [after |-> 30, by |-> g]
    /\ UNCHANGED <<Conf, syncLock, syncDownloadErrCount>>

\* the call being one that the mode of line 111 does not stop
PastMode(c) == ~(c.fn = "SyncData" /\ ~c.boot /\ ~c.exit /\ 2 = Conf.Mode /\ ~c.byHand)

\* a call past the mode that finds the mutex held is skipped
SkippedPastMode ==
    [][\A g \in Goroutines : (StartsLocked(g) /\ PastMode(call[g])) => SkipsPlanned(g)]_vars

\* a sync call runs its pass after it has waited at Lock() for the call that
\* returned last, which ran a pass too
QueuedPass ==
    \E g \in Goroutines :
        /\ call[g].fn \in SyncFns
        /\ call[g].waited
        /\ pc[g] = "pass"
        /\ ret.g # g /\ ret.how = "synced"

NoQueuedPass == ~QueuedPass

\* C33: a BootSyncData or SyncData call that starts while the mutex is held
\* returns without a sync pass after planning the next sync 30 seconds ahead,
\* and no such call waits at Lock() and then runs a sync pass right after the
\* pass it waited for.  Violated: IsMutexLocked (lines 61, 115) and Lock()
\* (lines 67, 121) are two statements, and a call that found the mutex free
\* can find it taken at Lock().
C33_SkippedNotQueued ==
    [][/\ \A g \in Goroutines : StartsLocked(g) => SkipsPlanned(g)
       /\ ~QueuedPass']_vars

\* ------------------------------------------------------------------ C34
\* the goroutine is between syncLock.Lock() and its return: it runs a sync
\* pass, a configuration write or a cloud operation
InLock(g) == pc[g] \in {"held", "pass"}

\* C34: no two goroutines are at once between Lock() and their return, whatever
\* they run there (a sync pass of SyncData or BootSyncData, a configuration
\* write of a setter, a cloud operation of CreateCloudSyncDir or
\* RemoveCloudSyncDir); the mutex is held by exactly the goroutine that is
\* there, so a goroutine whose call has returned, on any path, holds nothing.
C34_MutualExclusion ==
    /\ \A g, h \in Goroutines : InLock(g) /\ InLock(h) => g = h
    /\ \A g \in Goroutines : InLock(g) <=> syncLock = g
    /\ syncLock \in {0} \cup Goroutines

\* a sync pass runs while a configuration write waits at Lock(), after another
\* call has already returned and released the mutex
C34_Witness ==
    \E g, h \in Goroutines :
        /\ pc[g] = "pass"
        /\ pc[h] = "lock" /\ call[h].waited /\ call[h].fn \in Setters

\* ------------------------------------------------------------------ C35
\* SyncData(false, false, false), the call AutoSync makes
Automatic(c) == c.fn = "SyncData" /\ ~c.boot /\ ~c.exit /\ ~c.byHand

\* goroutine g executes the first statements of its SyncData call
SyncDataStarts(g) == pc[g] = "start" /\ call[g].fn = "SyncData" /\ pc'[g] # "start"

\* the step writes nothing and sends nothing
NothingChanged ==
    /\ sent' = 0
    /\ UNCHANGED <<syncLock, syncPlanTime, Conf, syncDownloadErrCount, BootSyncSucc,
                   ExitSyncSucc, isSubscriber, cloudDirs>>

\* C35: in manual mode (Conf.Sync.Mode = 2) the automatic call
\* SyncData(false, false, false) returns with no sync pass and with nothing
\* changed: the mutex is not taken, syncPlanTime, Conf.Sync (Synced and Stat
\* with it), BootSyncSucc and ExitSyncSucc keep their values and nothing is
\* sent; a call with boot, exit or byHand true is never returned by the mode,
\* whatever the mode is.
C35_ManualMode ==
    [][\A g \in Goroutines :
          SyncDataStarts(g) =>
             /\ (Automatic(call[g]) /\ 2 = Conf.Mode) =>
                   /\ pc'[g] = "idle"
                   /\ ret' = [g |-> g, of |-> call[g], how |-> "manual", err |-> FALSE]
                   /\ NothingChanged
             /\ ~Automatic(call[g]) => ~(pc'[g] = "idle" /\ ret'.how = "manual")]_vars

\* an automatic call was returned by the manual mode while another goroutine
\* holds the mutex, and the plan is the one of the start
C35_Witness ==
    /\ ret.how = "manual" /\ Automatic(ret.of)
    /\ 2 = Conf.Mode
    /\ \E h \in Goroutines : h # ret.g /\ syncLock = h /\ pc[h] = "pass" /\ call[h].byHand
    /\ syncPlanTime = [after |-> FixSyncInterval, by |-> 0]

\* ------------------------------------------------------------------ C36
\* the guards before the error gate let the call through: sync enabled, a valid
\* cloud directory name, a subscriber or a provider other than the official one
GuardsPassed ==
    /\ Conf.Enabled
    /\ IsValidCloudDirName(Conf.CloudName)
    /\ isSubscriber \/ ProviderSiYuan # Conf.Provider

\* the call is one the error gate applies to
GateApplies(c) == c.fn = "BootSyncData" \/ (c.fn = "SyncData" /\ ~c.byHand)

\* goroutine g, holding the mutex, executes the guards of its sync call
AtGuards(g) == pc[g] = "held" /\ call[g].fn \in SyncFns /\ pc'[g] # "held"

\* the call of goroutine g returns in this step
CallReturns(g) == pc[g] # "idle" /\ pc'[g] = "idle"

\* a call that reaches the gate with more than 7 download errors: one the gate
\* applies to returns with no pass, Conf.Sync as it was (Synced and Stat with
\* it) and the next sync planned 64 minutes ahead; a byHand call begins its pass
GateHolds ==
    \A g \in Goroutines :
        (AtGuards(g) /\ GuardsPassed /\ 7 < syncDownloadErrCount) =>
            IF GateApplies(call[g])
            THEN /\ pc'[g] = "idle" /\ ret'.how = "gate"
                 /\ Conf' = Conf
                 /\ syncPlanTime' = [after |-> 64 * 60, by |-> g]
            ELSE pc'[g] = "pass" /\ Conf'.Synced = Now

\* Conf.Sync.Synced is written only by a call that passed every guard and
\* begins its pass, Conf.Sync.Stat only by the end of a pass
SyncedByPass ==
    /\ Conf'.Synced # Conf.Synced =>
          \E g \in Goroutines :
              /\ AtGuards(g) /\ GuardsPassed
              /\ ~(7 < syncDownloadErrCount) \/ ~GateApplies(call[g])
              /\ pc'[g] = "pass"
    /\ Conf'.Stat # Conf.Stat =>
          \E g \in Goroutines : pc[g] = "pass" /\ CallReturns(g)

\* no pass of a call the gate applies to runs with more than 7 download errors
NoGatedPass ==
    \A g \in Goroutines :
        (pc[g] = "pass" /\ 7 < syncDownloadErrCount) => ~GateApplies(call[g])

\* C36 as stated: with more than 7 download errors, BootSyncData and every
\* SyncData call with byHand = false run no pass, leave Synced and Stat
\* unchanged and plan the next sync 64 minutes ahead, however they return; a
\* byHand call runs its pass; Synced is written only past every guard.
C36_ErrorGate ==
    [][/\ GateHolds /\ SyncedByPass /\ NoGatedPass'
       /\ \A g \in Goroutines :
             (CallReturns(g) /\ call[g].fn \in SyncFns /\ GateApplies(call[g])
                 /\ 7 < syncDownloadErrCount) =>
                /\ ret'.how # "synced"
                /\ Conf' = Conf
                /\ syncPlanTime' = [after |-> 64 * 60, by |-> g]]_vars

\* C36 for the calls that reach the gate: a call no earlier guard has returned
\* (mode, busy mutex, sync disabled, invalid directory name, subscription)
\* finds more than 7 download errors, runs no pass, leaves Conf.Sync as it was
\* and plans the next sync 64 minutes ahead unless it is a byHand call, which
\* begins its pass; Synced is written only by a call past every guard that
\* begins a pass, Stat only by the end of a pass.
C36_ErrorGateReached == [][GateHolds /\ SyncedByPass /\ NoGatedPass']_vars

\* an automatic or boot call was returned by the gate, 64 minutes planned
C36_Witness ==
    /\ ret.how = "gate" /\ GateApplies(ret.of)
    /\ 7 < syncDownloadErrCount
    /\ syncPlanTime = [after |-> 64 * 60, by |-> ret.g]
    /\ Conf.Stat.err /\ Conf.Stat.synced = Conf.Synced

\* ------------------------------------------------------------------ C37
\* goroutine g, holding the mutex, executes RemoveCloudSyncDir to its return
Removes(g) == pc[g] = "held" /\ call[g].fn = "RemoveCloudSyncDir" /\ pc'[g] = "idle"

\* the three outcomes of RemoveCloudSyncDir(name): nothing done for the empty
\* name, nothing changed when the repository or the removal fails, CloudName
\* back to "main" when the directory it names was removed
RemoveOutcomes ==
    \A g \in Goroutines :
        Removes(g) =>
            LET name == call[g].name IN
            /\ "" = name => /\ ~ret'.err
                            /\ cloudDirs' = cloudDirs /\ Conf' = Conf
            /\ ret'.err => cloudDirs' = cloudDirs /\ Conf' = Conf
            /\ ("" # name /\ ~ret'.err) =>
                  /\ cloudDirs' = cloudDirs \ {name}
                  /\ Conf' = [Conf EXCEPT
                                 !.CloudName = IF Conf.CloudName = name THEN "main" ELSE @]

\* the lemma: the outcomes alone
RemoveOutcomesKept == [][RemoveOutcomes]_vars

\* the configured directory is none this call has removed
NamesNoneRemoved == Conf'.CloudName \notin (cloudDirs \ cloudDirs')

\* C37: RemoveCloudSyncDir(name) with an empty name calls no cloud operation
\* and changes no configuration; when the removal fails it returns an error
\* and CloudName is unchanged; when it succeeds CloudName becomes "main" if it
\* was name and is unchanged otherwise; and after the call CloudName never
\* names a directory the call removed.
C37_RemoveCloudSyncDir ==
    [][/\ RemoveOutcomes
       /\ \A g \in Goroutines : Removes(g) => NamesNoneRemoved]_vars

====
